---------------------------- MODULE Spec2Model ----------------------------
(***************************************************************************)
(* A model of gift2json.js, the GIFT parser and exporter.                  *)
(*                                                                         *)
(* A JavaScript string is modelled as a sequence of one-character strings, *)
(* so the placeholder "&&058;" is the six-element sequence                 *)
(* <<"&","&","0","5","8",";">>.  Positions are 1-based here and 0-based in *)
(* the source; a search that fails yields 0 here and -1 in the source.     *)
(***************************************************************************)
EXTENDS Integers, Sequences, FiniteSets, TLC

(***************************************************************************)
(* Characters with a role in the grammar.                                  *)
(***************************************************************************)
BS == "\\"
NL == "\n"
TAB == "\t"
SP == " "

\* What String.prototype.trim and the regex class \s strip, within the
\* characters the model uses.
WhiteSpace == {SP, TAB, NL, "\r"}

(***************************************************************************)
(* String primitives of the JavaScript runtime, on sequences.              *)
(***************************************************************************)
\* s.slice(from - 1) : the suffix that starts at 1-based position from.
DropTo(s, from) == SubSeq(s, from, Len(s))

\* s.startsWith(pat, at - 1)
StartsAt(s, pat, at) ==
    /\ at >= 1
    /\ at + Len(pat) - 1 <= Len(s)
    /\ SubSeq(s, at, at + Len(pat) - 1) = pat

\* s.indexOf(pat, from - 1) + 1 : the first position >= from where pat is, or 0.
IndexFrom(s, pat, from) ==
    LET hits == { p \in from .. (Len(s) - Len(pat) + 1) : StartsAt(s, pat, p) }
    IN  IF hits = {} THEN 0 ELSE CHOOSE p \in hits : \A r \in hits : p <= r

\* s.indexOf(pat) + 1
IndexOf(s, pat) == IndexFrom(s, pat, 1)

\* s.lastIndexOf(pat) + 1
LastIndexOf(s, pat) ==
    LET hits == { p \in 1 .. (Len(s) - Len(pat) + 1) : StartsAt(s, pat, p) }
    IN  IF hits = {} THEN 0 ELSE CHOOSE p \in hits : \A r \in hits : p >= r

\* s.includes(pat)
Includes(s, pat) == IndexOf(s, pat) # 0

\* s.replace(new RegExp(escapeRegExp(from), 'g'), to) : every occurrence of
\* the literal text from, left to right, without overlap.
RECURSIVE ReplaceAll(_, _, _)
ReplaceAll(s, from, to) ==
    LET p == IndexOf(s, from)
    IN  IF p = 0 THEN s
        ELSE SubSeq(s, 1, p - 1) \o to \o ReplaceAll(DropTo(s, p + Len(from)), from, to)

\* s.trim()
RECURSIVE TrimLeft(_)
TrimLeft(s) ==
    IF s # <<>> /\ Head(s) \in WhiteSpace THEN TrimLeft(Tail(s)) ELSE s

RECURSIVE TrimRight(_)
TrimRight(s) ==
    IF s # <<>> /\ s[Len(s)] \in WhiteSpace
    THEN TrimRight(SubSeq(s, 1, Len(s) - 1)) ELSE s

Trim(s) == TrimRight(TrimLeft(s))

\* The concatenation of a sequence of strings.
RECURSIVE Concat(_)
Concat(ss) == IF ss = <<>> THEN <<>> ELSE Head(ss) \o Concat(Tail(ss))

\* parts.join(sep)
RECURSIVE Join(_, _)
Join(ss, sep) ==
    IF ss = <<>> THEN <<>>
    ELSE IF Len(ss) = 1 THEN ss[1]
    ELSE ss[1] \o sep \o Join(Tail(ss), sep)

\* s.split(sep) for a non-empty separator: always at least one part.
RECURSIVE Split(_, _)
Split(s, sep) ==
    LET p == IndexOf(s, sep)
    IN  IF p = 0 THEN <<s>>
        ELSE <<SubSeq(s, 1, p - 1)>> \o Split(DropTo(s, p + Len(sep)), sep)

\* str.slice(0, n), of a string or of an array.
Prefix(str, n) == IF Len(str) <= n THEN str ELSE SubSeq(str, 1, n)

\* s.split(sep, limit) : the first limit parts of s.split(sep).
SplitLimit(s, sep, limit) == Prefix(Split(s, sep), limit)

\* array.filter(keep) for a sequence.
RECURSIVE SelectNonEmpty(_)
SelectNonEmpty(ss) ==
    IF ss = <<>> THEN <<>>
    ELSE IF Head(ss) = <<>> THEN SelectNonEmpty(Tail(ss))
    ELSE <<Head(ss)>> \o SelectNonEmpty(Tail(ss))

\* s.split(sep).map(x => x.trim()).filter(Boolean)
RECURSIVE MapTrim(_)
MapTrim(ss) ==
    IF ss = <<>> THEN <<>> ELSE <<Trim(Head(ss))>> \o MapTrim(Tail(ss))

SplitTrimmed(s, sep) == SelectNonEmpty(MapTrim(Split(s, sep)))

(***************************************************************************)
(* The escaper.                                                            *)
(***************************************************************************)
\* ESC_PRE, in the insertion order Object.entries walks it.  The last
\* placeholder is written without the closing semicolon in the source.
ESC_PRE ==
    << << <<BS, ":">>, <<"&", "&", "0", "5", "8", ";">> >>,
       << <<BS, "#">>, <<"&", "&", "0", "3", "5", ";">> >>,
       << <<BS, "=">>, <<"&", "&", "0", "6", "1", ";">> >>,
       << <<BS, "{">>, <<"&", "&", "1", "2", "3", ";">> >>,
       << <<BS, "}">>, <<"&", "&", "1", "2", "5", ";">> >>,
       << <<BS, "~">>, <<"&", "&", "1", "2", "6", ";">> >>,
       << <<BS, "n">>, <<"&", "&", "0", "1", "0">> >> >>

\* ESC_POST : each placeholder back to k.slice(1), the escape without its
\* backslash.
ESC_POST ==
    [ e \in 1 .. Len(ESC_PRE) |-> << ESC_PRE[e][2], Tail(ESC_PRE[e][1]) >> ]

\* The placeholder that stands for a doubled backslash inside escapedcharPre.
BackslashMark == <<"&", "&", "0", "9", "2", ";">>

\* for (const [from, to] of Object.entries(table)) str = str.replace(from, to)
RECURSIVE ReplaceEach(_, _)
ReplaceEach(str, table) ==
    IF table = <<>> THEN str
    ELSE ReplaceEach(ReplaceAll(str, Head(table)[1], Head(table)[2]), Tail(table))

\* A slip: the doubled backslash is not protected before the table is applied.
escapedcharPre_NoBackslashMask(str) == ReplaceEach(str, ESC_PRE)

escapedcharPre(str) ==
    IF str = <<>> THEN str
    ELSE LET marked == ReplaceAll(str, <<BS, BS>>, BackslashMark)
             masked == ReplaceEach(marked, ESC_PRE)
         IN  ReplaceAll(masked, BackslashMark, <<BS>>)

escapedcharPost(str) ==
    IF str = <<>> THEN str ELSE ReplaceEach(str, ESC_POST)

\* The replace chain of repchar, in its order.
RepcharChain ==
    << << <<BS>>, <<BS, BS>> >>,
       << <<"#">>, <<BS, "#">> >>,
       << <<"=">>, <<BS, "=">> >>,
       << <<"~">>, <<BS, "~">> >>,
       << <<"{">>, <<BS, "{">> >>,
       << <<"}">>, <<BS, "}">> >>,
       << <<":">>, <<BS, ":">> >>,
       << <<NL>>, <<BS, "n">> >>,
       << <<"\r">>, <<>> >> >>

repchar(text) == ReplaceEach(text, RepcharChain)

(***************************************************************************)
(* Letters, digits and numbers.                                            *)
(***************************************************************************)
UpperLetters ==
    << "A", "B", "C", "D", "E", "F", "G", "H", "I", "J", "K", "L", "M",
       "N", "O", "P", "Q", "R", "S", "T", "U", "V", "W", "X", "Y", "Z" >>

LowerLetters ==
    << "a", "b", "c", "d", "e", "f", "g", "h", "i", "j", "k", "l", "m",
       "n", "o", "p", "q", "r", "s", "t", "u", "v", "w", "x", "y", "z" >>

\* str.toUpperCase() and str.toLowerCase(), on the ASCII letters.
ToUpperCase(str) ==
    [ p \in 1 .. Len(str) |->
        IF \E l \in 1 .. Len(LowerLetters) : LowerLetters[l] = str[p]
        THEN UpperLetters[CHOOSE l \in 1 .. Len(LowerLetters) : LowerLetters[l] = str[p]]
        ELSE str[p] ]

ToLowerCase(str) ==
    [ p \in 1 .. Len(str) |->
        IF \E l \in 1 .. Len(UpperLetters) : UpperLetters[l] = str[p]
        THEN LowerLetters[CHOOSE l \in 1 .. Len(UpperLetters) : UpperLetters[l] = str[p]]
        ELSE str[p] ]

Digits == << "0", "1", "2", "3", "4", "5", "6", "7", "8", "9" >>

IsDigit(c) == \E d \in 1 .. Len(Digits) : Digits[d] = c

DigitValue(c) == (CHOOSE d \in 1 .. Len(Digits) : Digits[d] = c) - 1

\* The length of the run of digits that str starts with.
DigitRun(str) ==
    IF \A n \in 1 .. Len(str) : IsDigit(str[n]) THEN Len(str)
    ELSE (CHOOSE n \in 1 .. Len(str) :
            ~IsDigit(str[n]) /\ \A k \in 1 .. n - 1 : IsDigit(str[k])) - 1

\* The value of a run of digits.
RECURSIVE DigitsValue(_)
DigitsValue(ds) ==
    IF ds = <<>> THEN 0
    ELSE 10 * DigitsValue(SubSeq(ds, 1, Len(ds) - 1)) + DigitValue(ds[Len(ds)])

(***************************************************************************)
(* JavaScript numbers.  A number is an IEEE 754 double, and the model      *)
(* computes with doubles exactly: every operation is carried out on        *)
(* integers of any size and its result rounded to the nearest double, ties *)
(* to even, as the source's arithmetic does.                               *)
(*                                                                         *)
(* A natural number of any size is the sequence of its digits in base      *)
(* Limb, the lowest first, with no zero at the high end; <<>> is zero.     *)
(***************************************************************************)
Limb == 10 * 10 * 10 * 10

\* The highest place of x that holds a digit other than 0, 0 when none does.
BigTopOf(places) ==
    IF places = {} THEN 0 ELSE CHOOSE i \in places : \A j \in places : j <= i

\* x without the zeros at its high end.
BigNorm(x) == SubSeq(x, 1, BigTopOf({ i \in 1 .. Len(x) : x[i] # 0 }))

\* x with zeros at its high end, n digits in all.
BigPad(x, n) == [ i \in 1 .. n |-> IF i <= Len(x) THEN x[i] ELSE 0 ]

\* The two halves of a run of digits, the low half first.
LowHalf(x) == SubSeq(x, 1, Len(x) \div 2)
HighHalf(x) == SubSeq(x, (Len(x) \div 2) + 1, Len(x))

\* The digits of two runs one after the other, with what the second run hands
\* on: each run is <<digits, handed on>>.
Joined(low, high) == << low[1] \o high[1], high[2] >>

\* The digits of x * c + carry at the places of x, and the carry out of
\* them: <<digits, carry>>.  The run is worked by halves.
RECURSIVE TimesPart(_, _, _)
TimesHigh(low, x, c) == Joined(low, TimesPart(HighHalf(x), c, low[2]))

TimesPart(x, c, carry) ==
    IF x = <<>> THEN << <<>>, carry >>
    ELSE IF Len(x) = 1
    THEN << <<(x[1] * c + carry) % Limb>>, (x[1] * c + carry) \div Limb >>
    ELSE TimesHigh(TimesPart(LowHalf(x), c, carry), x, c)

\* The digits of a carry.
CarryDigits(carry) ==
    IF carry = 0 THEN <<>>
    ELSE IF carry < Limb THEN <<carry>>
    ELSE <<carry % Limb, carry \div Limb>>

\* The digits of a run with the carry out of it.
Carried(part) == part[1] \o CarryDigits(part[2])

\* x * c + carry, for a small c > 0.
BigTimes(x, c, carry) == Carried(TimesPart(x, c, carry))

\* The digits of x + y + carry at the places of x and y, runs of one length,
\* and the carry out of them.
RECURSIVE AddPart(_, _, _)
AddHigh(low, x, y) == Joined(low, AddPart(HighHalf(x), HighHalf(y), low[2]))

AddPart(x, y, carry) ==
    IF x = <<>> THEN << <<>>, carry >>
    ELSE IF Len(x) = 1
    THEN << <<(x[1] + y[1] + carry) % Limb>>, (x[1] + y[1] + carry) \div Limb >>
    ELSE AddHigh(AddPart(LowHalf(x), LowHalf(y), carry), x, y)

AddPadded(x, y, n, carry) == Carried(AddPart(BigPad(x, n), BigPad(y, n), carry))

\* x + y + carry.
BigAdd(x, y, carry) == AddPadded(x, y, IF Len(x) > Len(y) THEN Len(x) ELSE Len(y), carry)

\* The digits of x - y - borrow at the places of x and y, runs of one
\* length, and the borrow out of them.
RECURSIVE SubPart(_, _, _)
SubHigh(low, x, y) == Joined(low, SubPart(HighHalf(x), HighHalf(y), low[2]))

SubPart(x, y, borrow) ==
    IF x = <<>> THEN << <<>>, borrow >>
    ELSE IF Len(x) = 1
    THEN << <<(x[1] - y[1] - borrow + Limb) % Limb>>,
            IF x[1] - y[1] - borrow < 0 THEN 1 ELSE 0 >>
    ELSE SubHigh(SubPart(LowHalf(x), LowHalf(y), borrow), x, y)

\* x - y, for x >= y.
BigMinus(x, y) == BigNorm(SubPart(x, BigPad(y, Len(x)), 0)[1])

\* -1, 0 or 1 as x is less than, equal to or greater than y at place i.
BigCmpAt(x, y, i) == IF i = 0 THEN 0 ELSE IF x[i] < y[i] THEN -1 ELSE 1

\* -1, 0 or 1 as x is less than, equal to or greater than y.
BigCmp(x, y) ==
    IF Len(x) # Len(y) THEN (IF Len(x) < Len(y) THEN -1 ELSE 1)
    ELSE BigCmpAt(x, y, BigTopOf({ i \in 1 .. Len(x) : x[i] # y[i] }))

\* x * 2^k, in steps of at most 2^13.
RECURSIVE BigShift(_, _)
BigShift(x, k) ==
    IF k = 0 \/ x = <<>> THEN x
    ELSE IF k <= 13 THEN BigTimes(x, 2 ^ k, 0)
    ELSE BigShift(BigShift(x, k \div 2), k - (k \div 2))

\* x * 10^k.
BigTimesTen(x, k) ==
    IF x = <<>> THEN x
    ELSE BigTimes([ i \in 1 .. (k \div 4) |-> 0 ] \o x, 10 ^ (k % 4), 0)

BigOne == <<1>>
Two52 == <<496, 2737, 5996, 4503>>
Two53 == <<992, 5474, 1992, 9007>>

(***************************************************************************)
(* A double is zero, or m * 2^e with 2^52 <= m < 2^53 and e <= 971, or     *)
(* m * 2^-1074 with m < 2^52 (a subnormal), with a sign; or an infinity    *)
(* with a sign; or NaN.                                                    *)
(***************************************************************************)
Finite(neg, m, e) == [neg |-> neg, m |-> m, e |-> IF m = <<>> THEN 0 ELSE e]
Infinite(neg) == [neg |-> neg, inf |-> TRUE]
NaN == [nan |-> TRUE]
DblFinite(d) == "m" \in DOMAIN d
DblNaN(d) == "nan" \in DOMAIN d

\* The digits of the quotient of x by a small c > 0 at the places of x, the
\* highest first, and the remainder, given the remainder of the places
\* above: <<digits, rest>>.
RECURSIVE DividePart(_, _, _)
DivideLow(high, x, c) == Joined(high, DividePart(LowHalf(x), c, high[2]))

DividePart(x, c, rest) ==
    IF x = <<>> THEN << <<>>, rest >>
    ELSE IF Len(x) = 1
    THEN << <<(rest * Limb + x[1]) \div c>>, (rest * Limb + x[1]) % c >>
    ELSE DivideLow(DividePart(HighHalf(x), c, rest), x, c)

\* The digits of a division, the lowest first, with its remainder.
Divided(d) == << BigNorm([ i \in 1 .. Len(d[1]) |-> d[1][Len(d[1]) + 1 - i] ]), d[2] >>

\* The quotient and the remainder of x by a small c > 0 : <<q, rest>>.
BigDivide(x, c) == Divided(DividePart(x, c, 0))

\* <<q, sticky>> of a division <<digits, rest>> : the quotient, and whether
\* anything is left of the dividend, given what was left before.
Quotient(d, sticky) == << d[1], sticky \/ d[2] # 0 >>

\* x / 2^k : <<the whole part, whether a fraction is left or was left before>>,
\* in steps of at most 2^13.
RECURSIVE BigShiftDown(_, _)
BigShiftDown(xs, k) ==
    IF k = 0 \/ xs[1] = <<>> THEN xs
    ELSE IF k <= 13 THEN Quotient(BigDivide(xs[1], 2 ^ k), xs[2])
    ELSE BigShiftDown(BigShiftDown(xs, k \div 2), k - (k \div 2))

\* x / 10^k, likewise.
BigOverTen(x, k) ==
    Quotient(BigDivide(SubSeq(x, (k \div 4) + 1, Len(x)), 10 ^ (k % 4)),
             \E i \in 1 .. (k \div 4) : i <= Len(x) /\ x[i] # 0)

\* The number of binary digits of a digit v in base Limb.
LimbBits(v) == CHOOSE n \in 0 .. 14 : v < 2 ^ n /\ (n = 0 \/ 2 ^ (n - 1) <= v)

\* The number of binary digits of x, given a number b that is it, or one or
\* two less.
BitLenNear(x, b) ==
    IF BigCmp(x, BigShift(BigOne, b)) < 0 THEN b
    ELSE IF BigCmp(x, BigShift(BigOne, b + 1)) < 0 THEN b + 1
    ELSE b + 2

\* The number of binary digits of x : a digit in base Limb is 13.2877 binary
\* digits.
BitLen(x) ==
    IF x = <<>> THEN 0
    ELSE IF Len(x) = 1 THEN LimbBits(x[1])
    ELSE BitLenNear(x, LimbBits(x[Len(x)]) + ((Len(x) - 1) * 132877) \div 10000)

\* The double of sign neg nearest to m1 / 2 * 2^e, where m1 < 2^54 and sticky
\* tells that the value is a little more than that: to nearest, ties to even;
\* an infinity past the largest double.
Nearest(neg, half, sticky, e) ==
    IF half[2] = 1 /\ (sticky \/ (half[1] # <<>> /\ Head(half[1]) % 2 = 1))
    THEN IF BigAdd(half[1], BigOne, 0) = Two53
         THEN (IF e + 1 > 971 THEN Infinite(neg) ELSE Finite(neg, Two52, e + 1))
         ELSE (IF e > 971 THEN Infinite(neg)
               ELSE Finite(neg, BigAdd(half[1], BigOne, 0), e))
    ELSE IF e > 971 THEN Infinite(neg)
    ELSE Finite(neg, half[1], e)

\* With <<m1, sticky>> the value cut to one binary digit more than the double
\* keeps, the last place of the double being 2^e.
NearestCut(neg, cut, e) == Nearest(neg, BigDivide(cut[1], 2), cut[2], e)

\* x of len binary digits, times 2^e and a little more when sticky, cut after
\* the place 2^(last - 1).
CutAt(neg, x, sticky, e, last) ==
    IF last - 1 >= e THEN NearestCut(neg, BigShiftDown(<<x, sticky>>, last - 1 - e), last)
    ELSE NearestCut(neg, <<BigShift(x, e - (last - 1)), sticky>>, last)

\* The place of the last binary digit the double keeps of a value whose
\* first binary digit is at 2^top : 53 digits, fewer for a subnormal.
LastPlace(top) == IF top - 52 < -1074 THEN -1074 ELSE top - 52

RoundLen(neg, x, sticky, e, len) ==
    IF e + len - 1 > 1024 THEN Infinite(neg)
    ELSE CutAt(neg, x, sticky, e, LastPlace(e + len - 1))

\* The double nearest to (-1)^neg * (x + f) * 2^e, where 0 <= f < 1 and f > 0
\* exactly when sticky; x has 54 binary digits or more when sticky.
RoundInt(neg, x, sticky, e) ==
    IF x = <<>> THEN Finite(neg, <<>>, 0) ELSE RoundLen(neg, x, sticky, e, BitLen(x))

\* With <<q, sticky>> a quotient.
RoundQuotient(neg, q, e) == RoundInt(neg, q[1], q[2], e)

(***************************************************************************)
(* Number::toString: the shortest run of decimal digits that reads back as *)
(* the double, the nearest to it among the runs of that length.  The       *)
(* double is r / s; mp / s and mm / s are half the distance to the next    *)
(* double above and below; even tells that the ends of that range read     *)
(* back as the double too.                                                 *)
(***************************************************************************)
\* -1, 0 or 1 as x + y is less than, equal to or greater than z.
BigSumCmp(x, y, z) == BigCmp(BigAdd(x, y, 0), z)

\* r / s with half a step above it reaches c = 1, given the comparison of
\* r + mp with s.
Reaches(cmp, even) == IF even THEN cmp >= 0 ELSE cmp > 0

\* s raised by powers of ten until r / s with half a step above it is below
\* 1 : <<s', n'>>, n counting the powers.
RECURSIVE ScaleUp(_, _, _, _)
ScaleUp(r, mp, sn, even) ==
    IF BigCmp(r, BigTimesTen(sn[1], 63)) >= 0
    THEN ScaleUp(r, mp, <<BigTimesTen(sn[1], 64), sn[2] + 64>>, even)
    ELSE IF BigCmp(r, BigTimesTen(sn[1], 15)) >= 0
    THEN ScaleUp(r, mp, <<BigTimesTen(sn[1], 16), sn[2] + 16>>, even)
    ELSE IF BigCmp(r, BigTimesTen(sn[1], 3)) >= 0
    THEN ScaleUp(r, mp, <<BigTimesTen(sn[1], 4), sn[2] + 4>>, even)
    ELSE IF Reaches(BigSumCmp(r, mp, sn[1]), even)
    THEN ScaleUp(r, mp, <<BigTimesTen(sn[1], 1), sn[2] + 1>>, even)
    ELSE sn

\* <<r, mp, mm, n>> with r, mp and mm raised by k powers of ten.
Raised(st, k) ==
    << BigTimesTen(st[1], k), BigTimesTen(st[2], k), BigTimesTen(st[3], k), st[4] - k >>

\* -1, 0 or 1 as (r + mp) * 10^k is less than, equal to or greater than s.
RaisedCmp(st, k, s) == BigCmp(BigTimesTen(BigAdd(st[1], st[2], 0), k), s)

\* r, mp and mm raised by powers of ten as long as ten times r / s with half
\* a step above it stays below 1 : <<r', mp', mm', n'>>.
RECURSIVE ScaleDown(_, _, _)
ScaleDown(st, s, even) ==
    IF RaisedCmp(st, 64, s) < 0 THEN ScaleDown(Raised(st, 64), s, even)
    ELSE IF RaisedCmp(st, 16, s) < 0 THEN ScaleDown(Raised(st, 16), s, even)
    ELSE IF RaisedCmp(st, 4, s) < 0 THEN ScaleDown(Raised(st, 4), s, even)
    ELSE IF ~Reaches(RaisedCmp(st, 1, s), even) THEN ScaleDown(Raised(st, 1), s, even)
    ELSE st

\* How many times s goes into r, for r < 10 s.
RECURSIVE DigitOf(_, _)
DigitOf(r, s) == IF BigCmp(r, s) < 0 THEN 0 ELSE 1 + DigitOf(BigMinus(r, s), s)

\* The last digit: d or d + 1, the nearer to the double, the even one when
\* they are as near.
LastDigit(d, low, high, half) ==
    IF low /\ ~high THEN d
    ELSE IF high /\ ~low THEN d + 1
    ELSE IF half < 0 THEN d
    ELSE IF half > 0 THEN d + 1
    ELSE IF d % 2 = 0 THEN d ELSE d + 1

\* The digits from r / s on, r < s, mp and mm the half steps.
RECURSIVE GenDigits(_, _, _, _, _)
\* With the digit d taken out of 10 r: rest is what is left.
DigitStep(d, rest, s, mp, mm, even) ==
    IF ~Reaches(BigCmp(mm, rest), even) /\ ~Reaches(BigSumCmp(rest, mp, s), even)
    THEN <<d>> \o GenDigits(rest, s, mp, mm, even)
    ELSE << LastDigit(d, Reaches(BigCmp(mm, rest), even),
                      Reaches(BigSumCmp(rest, mp, s), even),
                      BigCmp(BigTimes(rest, 2, 0), s)) >>

\* With d the times s goes into 10 r.
DigitTaken(d, r, s, mp, mm, even) ==
    DigitStep(d, IF d = 0 THEN r ELSE BigMinus(r, BigTimes(s, d, 0)), s, mp, mm, even)

GenDigits(r, s, mp, mm, even) ==
    DigitTaken(DigitOf(BigTimesTen(r, 1), s), BigTimesTen(r, 1), s,
               BigTimesTen(mp, 1), BigTimesTen(mm, 1), even)

ShortestDown(down, s, even) ==
    <<GenDigits(down[1], s, down[2], down[3], even), down[4]>>

ShortestUp(r, mp, mm, up, even) ==
    ShortestDown(ScaleDown(<<r, mp, mm, up[2]>>, up[1], even), up[1], even)

ShortestFrom(r, mp, mm, s, even) ==
    ShortestUp(r, mp, mm, ScaleUp(r, mp, <<s, 0>>, even), even)

\* m * 2^e, e = up - down, where the double below is nearer than the one
\* above by a factor 2^near.
ShortestOf(m, up, down, near) ==
    ShortestFrom(BigShift(m, up + 1 + near), BigShift(BigOne, up + near),
                 BigShift(BigOne, up), BigShift(BigOne, down + 1 + near),
                 Head(m) % 2 = 0)

\* <<digits, n>> : the digits of a finite double d that is not zero, and the
\* power of ten of the place before the first of them.
Shortest(d) ==
    ShortestOf(d.m, IF d.e > 0 THEN d.e ELSE 0, IF d.e < 0 THEN -d.e ELSE 0,
               IF d.m = Two52 /\ d.e > -1074 THEN 1 ELSE 0)

\* The decimal digits of a natural number.
RECURSIVE NatText(_)
NatText(n) ==
    IF n < 10 THEN <<Digits[n + 1]>>
    ELSE NatText(n \div 10) \o <<Digits[(n % 10) + 1]>>

Zeros(n) == [ i \in 1 .. n |-> "0" ]

\* The text of the digits ds with the point after the n-th of them, as
\* Number::toString lays it out.
DigitsText(ds, n) ==
    IF Len(ds) <= n /\ n <= 21 THEN ds \o Zeros(n - Len(ds))
    ELSE IF 0 < n /\ n <= 21 THEN SubSeq(ds, 1, n) \o <<".">> \o SubSeq(ds, n + 1, Len(ds))
    ELSE IF -6 < n /\ n <= 0 THEN <<"0", ".">> \o Zeros(-n) \o ds
    ELSE <<Head(ds)>> \o (IF Len(ds) > 1 THEN <<".">> \o Tail(ds) ELSE <<>>)
         \o <<"e", IF n - 1 < 0 THEN "-" ELSE "+">>
         \o NatText(IF n - 1 < 0 THEN 1 - n ELSE n - 1)

ShortestText(sh) == DigitsText([ i \in 1 .. Len(sh[1]) |-> Digits[sh[1][i] + 1] ], sh[2])

\* String(x) of the double d.
DblText(d) ==
    IF DblNaN(d) THEN <<"N", "a", "N">>
    ELSE IF ~DblFinite(d)
    THEN (IF d.neg THEN <<"-">> ELSE <<>>) \o <<"I", "n", "f", "i", "n", "i", "t", "y">>
    ELSE IF d.m = <<>> THEN <<"0">>
    ELSE (IF d.neg THEN <<"-">> ELSE <<>>) \o ShortestText(Shortest(d))

(***************************************************************************)
(* Arithmetic on doubles: each result is the double nearest to the exact   *)
(* one.                                                                    *)
(***************************************************************************)
DblZero(d) == DblFinite(d) /\ d.m = <<>>

\* -d.
DblNegate(d) == IF DblNaN(d) THEN d ELSE [d EXCEPT !.neg = ~d.neg]

\* d / c, for a small whole c > 0.
DblOver(d, c) ==
    IF ~DblFinite(d) \/ d.m = <<>> THEN d
    ELSE RoundQuotient(d.neg, Quotient(BigDivide(BigShift(d.m, 64), c), FALSE), d.e - 64)

\* d * c, for a small whole c > 0.
DblTimes(d, c) ==
    IF ~DblFinite(d) \/ d.m = <<>> THEN d
    ELSE RoundInt(d.neg, BigTimes(d.m, c, 0), FALSE, d.e)

\* (-1)^aneg * x * 2^e + (-1)^bneg * y * 2^e.
SumAt(aneg, x, bneg, y, cmp, e) ==
    IF aneg = bneg THEN RoundInt(aneg, BigAdd(x, y, 0), FALSE, e)
    ELSE IF cmp = 0 THEN Finite(FALSE, <<>>, 0)
    ELSE IF cmp > 0 THEN RoundInt(aneg, BigMinus(x, y), FALSE, e)
    ELSE RoundInt(bneg, BigMinus(y, x), FALSE, e)

SumAligned(aneg, x, bneg, y, e) == SumAt(aneg, x, bneg, y, BigCmp(x, y), e)

SumFinite(a, b, e) ==
    SumAligned(a.neg, BigShift(a.m, a.e - e), b.neg, BigShift(b.m, b.e - e), e)

\* a + b.
DblPlus(a, b) ==
    IF DblNaN(a) \/ DblNaN(b) THEN NaN
    ELSE IF ~DblFinite(a) THEN (IF ~DblFinite(b) /\ a.neg # b.neg THEN NaN ELSE a)
    ELSE IF ~DblFinite(b) THEN b
    ELSE IF a.m = <<>> /\ b.m = <<>> THEN Finite(a.neg /\ b.neg, <<>>, 0)
    ELSE IF a.m = <<>> THEN b
    ELSE IF b.m = <<>> THEN a
    ELSE SumFinite(a, b, IF a.e < b.e THEN a.e ELSE b.e)

\* a - b.
DblMinus(a, b) == DblPlus(a, DblNegate(b))

(***************************************************************************)
(* Reading a decimal literal.                                              *)
(***************************************************************************)
DigitAt(ds, i) == IF i >= 1 THEN DigitValue(ds[i]) ELSE 0

\* The whole number that a run of decimal digits writes.
BigOfDigits(ds) ==
    BigNorm([ i \in 1 .. ((Len(ds) + 3) \div 4) |->
                1000 * DigitAt(ds, Len(ds) - 4 * i + 1) + 100 * DigitAt(ds, Len(ds) - 4 * i + 2)
                + 10 * DigitAt(ds, Len(ds) - 4 * i + 3) + DigitAt(ds, Len(ds) - 4 * i + 4) ])

\* The number of decimal digits of x.
DecimalLen(x) ==
    IF x = <<>> THEN 0
    ELSE 4 * (Len(x) - 1) + (CHOOSE n \in 1 .. 4 : x[Len(x)] < 10 ^ n /\ 10 ^ (n - 1) <= x[Len(x)])

\* The double nearest to (-1)^neg * x * 10^p : an infinity and zero without
\* the division where the value is past every double.
DblOfDecimal(neg, x, p) ==
    IF x = <<>> THEN Finite(neg, <<>>, 0)
    ELSE IF DecimalLen(x) + p > 310 THEN Infinite(neg)
    ELSE IF DecimalLen(x) + p < -330 THEN Finite(neg, <<>>, 0)
    ELSE IF p >= 0 THEN RoundInt(neg, BigTimesTen(x, p), FALSE, 0)
    ELSE RoundQuotient(neg, BigOverTen(BigShift(x, 64 - 4 * p), -p), 4 * p - 64)

(***************************************************************************)
(* Numbers as the source holds them.  A number field holds a double, NaN   *)
(* and the infinities among them, null, or a string.                       *)
(***************************************************************************)
Thousand == 10 * 10 * 10

\* The natural number n < Limb^2 as digits in base Limb.
BigOfNat(n) == BigNorm(<<n % Limb, n \div Limb>>)

\* The double nearest to n thousandths: Num(1500) is 1.5.
Num(n) == DblOfDecimal(n < 0, BigOfNat(IF n < 0 THEN -n ELSE n), -3)

\* null, and a string where the source keeps strings and numbers in one field.
Null == [null |-> TRUE]

\* undefined: what reading a field the object lacks gives.
Undefined == [undefined |-> TRUE]
Str(x) == [str |-> x]

\* isFinite(v) of a number.
IsFinite(v) == DblFinite(v)

\* !v of a field that holds a number, null or a string.
Falsy(v) == v = Null \/ v = Undefined \/ v = NaN \/ v = Str(<<>>) \/ (DblFinite(v) /\ v.m = <<>>)

\* JSON.parse(JSON.stringify(v)) of such a field: NaN and the infinities
\* become null, and zero loses its sign.
Cloned(v) ==
    IF "nan" \in DOMAIN v \/ "inf" \in DOMAIN v THEN Null
    ELSE IF DblFinite(v) /\ v.m = <<>> THEN Finite(FALSE, <<>>, 0)
    ELSE v

\* The run of digits that str starts with.
DigitPrefix(str) == SubSeq(str, 1, DigitRun(str))

\* The digits ds without the zeros they start with.
Significant(ds) ==
    IF \A n \in 1 .. Len(ds) : ds[n] = "0" THEN <<>>
    ELSE DropTo(ds, CHOOSE n \in 1 .. Len(ds) :
                        ds[n] # "0" /\ \A k \in 1 .. n - 1 : ds[k] = "0")

\* An exponent past which a literal of len digits is zero or an infinity
\* whatever its digits are: every double but zero is between 10^-400 and
\* 10^400.
ExponentReach(len) == len + 400

\* The number the exponent digits ds write, and reach + 1 when it is more
\* than reach; reach is below 10^9, the run of digits being a sequence.
ExponentValue(ds, reach) ==
    IF Len(Significant(ds)) > 9 \/ DigitsValue(Significant(ds)) > reach THEN reach + 1
    ELSE DigitsValue(Significant(ds))

\* The exponent part that str starts with: e or E, a sign, digits; it counts
\* only with a digit in it, and 0 is the exponent of a literal without one.
\* An exponent past reach is read as one step past it, with its sign.
ExponentPart(str, reach) ==
    IF str = <<>> \/ Head(str) \notin {"e", "E"} THEN 0
    ELSE IF Len(str) > 1 /\ str[2] = "-"
    THEN -ExponentValue(DigitPrefix(DropTo(str, 3)), reach)
    ELSE IF Len(str) > 1 /\ str[2] = "+"
    THEN ExponentValue(DigitPrefix(DropTo(str, 3)), reach)
    ELSE ExponentValue(DigitPrefix(DropTo(str, 2)), reach)

\* The number written by the digits whole, a point, the digits decimals and
\* the exponent part that rest starts with; NaN when there is no digit
\* before the exponent.
DecimalValue(neg, whole, decimals, rest) ==
    IF whole = <<>> /\ decimals = <<>> THEN NaN
    ELSE DblOfDecimal(neg, BigOfDigits(whole \o decimals),
                      ExponentPart(rest, ExponentReach(Len(whole) + Len(decimals)))
                      - Len(decimals))

\* A point follows the digits whole at the start of str.
PointAfter(str, whole) == Len(str) > Len(whole) /\ str[Len(whole) + 1] = "."

\* The digits after the point that follows the digits whole at the start
\* of str, none when no point follows them.
DecimalsAfter(str, whole) ==
    IF PointAfter(str, whole) THEN DigitPrefix(DropTo(str, Len(whole) + 2)) ELSE <<>>

\* The literal whose digits before and after the point are whole and
\* decimals.
PointedFloat(neg, str, whole, decimals) ==
    DecimalValue(neg, whole, decimals,
                 DropTo(str, Len(whole) + Len(decimals)
                             + (IF PointAfter(str, whole) THEN 2 ELSE 1)))

\* An unsigned decimal literal at the start of str, with the sign it is
\* given: digits, a point and digits, an exponent part.
UnsignedFloat(neg, str, whole) == PointedFloat(neg, str, whole, DecimalsAfter(str, whole))

InfinityText == <<"I", "n", "f", "i", "n", "i", "t", "y">>

\* A literal at the start of str, with the sign it is given: the word
\* Infinity or a decimal literal.
SignedFloat(neg, str) ==
    IF StartsAt(str, InfinityText, 1) THEN Infinite(neg)
    ELSE UnsignedFloat(neg, str, DigitPrefix(str))

\* The literal without its sign.
Unsigned(t0) == IF t0 # <<>> /\ Head(t0) \in {"-", "+"} THEN Tail(t0) ELSE t0

\* The literal starts with a minus sign.
SignOf(t0) == t0 # <<>> /\ Head(t0) = "-"

\* The literal after its leading white space.
FloatOf(t0) == SignedFloat(SignOf(t0), Unsigned(t0))

\* parseFloat(str): leading white space, a sign, then the word Infinity or
\* digits, a point and digits, and an exponent; what follows is ignored;
\* NaN when neither is there.
parseFloat(str) == FloatOf(TrimLeft(str))

\* String(x) of a number, as a template literal writes it.
NumberText(v) == DblText(v)

(***************************************************************************)
(* Number(x), and the conversion that * applies to its operands.           *)
(***************************************************************************)
\* The digits of the radixes 2, 8 and 16, in lower and in upper case.
RadixDigits ==
    <<"0", "1", "2", "3", "4", "5", "6", "7", "8", "9", "a", "b", "c", "d", "e", "f">>

RadixUpper ==
    <<"0", "1", "2", "3", "4", "5", "6", "7", "8", "9", "A", "B", "C", "D", "E", "F">>

\* The value of the digit c, 16 when c is a digit in no radix.
RadixDigit(c) ==
    IF \E d \in 1 .. 16 : RadixDigits[d] = c \/ RadixUpper[d] = c
    THEN (CHOOSE d \in 1 .. 16 : RadixDigits[d] = c \/ RadixUpper[d] = c) - 1
    ELSE 16

\* The radix the literal t is written in: 0x, 0o and 0b open a literal in
\* 16, 8 and 2.
RadixOf(t) ==
    IF Len(t) < 2 \/ t[1] # "0" THEN 10
    ELSE IF t[2] \in {"x", "X"} THEN 16
    ELSE IF t[2] \in {"o", "O"} THEN 8
    ELSE IF t[2] \in {"b", "B"} THEN 2
    ELSE 10

\* The whole number that the digits ds write in the radix.
RECURSIVE RadixValue(_, _)
RadixValue(ds, radix) ==
    IF ds = <<>> THEN <<>>
    ELSE BigTimes(RadixValue(SubSeq(ds, 1, Len(ds) - 1), radix), radix,
                  RadixDigit(ds[Len(ds)]))

\* The number of the digits after 0x, 0o or 0b: NaN without a digit or with
\* a character that is no digit of the radix.
RadixLiteral(ds, radix) ==
    IF ds = <<>> \/ \E n \in 1 .. Len(ds) : RadixDigit(ds[n]) >= radix THEN NaN
    ELSE RoundInt(FALSE, RadixValue(ds, radix), FALSE, 0)

\* The length of the exponent part that str starts with, 0 without one.
ExponentLen(str) ==
    IF str = <<>> \/ Head(str) \notin {"e", "E"} THEN 0
    ELSE IF Len(str) > 1 /\ str[2] \in {"-", "+"}
    THEN (IF DigitRun(DropTo(str, 3)) = 0 THEN 0 ELSE 2 + DigitRun(DropTo(str, 3)))
    ELSE (IF DigitRun(DropTo(str, 2)) = 0 THEN 0 ELSE 1 + DigitRun(DropTo(str, 2)))

\* The length of the digits, point and digits that str starts with, 0 when
\* there is no digit.
MantissaLen(str, whole, decimals) ==
    IF whole = <<>> /\ decimals = <<>> THEN 0
    ELSE Len(whole) + Len(decimals) + (IF PointAfter(str, whole) THEN 1 ELSE 0)

\* The length of the unsigned decimal literal that str starts with.
DecimalLiteralLen(str, len) ==
    IF len = 0 THEN 0 ELSE len + ExponentLen(DropTo(str, len + 1))

\* The length of the unsigned literal that str starts with: the word
\* Infinity or a decimal literal.
UnsignedLen(str) ==
    IF StartsAt(str, InfinityText, 1) THEN Len(InfinityText)
    ELSE DecimalLiteralLen(str, MantissaLen(str, DigitPrefix(str),
                                            DecimalsAfter(str, DigitPrefix(str))))

\* The literal t is a signed decimal literal and nothing else.
WholeLiteral(t) ==
    UnsignedLen(Unsigned(t)) > 0
    /\ UnsignedLen(Unsigned(t)) = Len(Unsigned(t))

\* Number(str) of a string after its white space is trimmed: 0 of the empty
\* string, a literal in radix 16, 8 or 2, a signed decimal literal or
\* Infinity; NaN when anything else is there.
TrimmedNumber(t) ==
    IF t = <<>> THEN Finite(FALSE, <<>>, 0)
    ELSE IF RadixOf(t) # 10 THEN RadixLiteral(DropTo(t, 3), RadixOf(t))
    ELSE IF WholeLiteral(t) THEN FloatOf(t)
    ELSE NaN

StringToNumber(str) == TrimmedNumber(Trim(str))

\* Number(v) of a field after the JSON clone: a number is itself, null is 0,
\* undefined is NaN, a string is read as a literal.
ToNumber(v) ==
    IF v = Null THEN Finite(FALSE, <<>>, 0)
    ELSE IF v = Undefined THEN NaN
    ELSE IF "str" \in DOMAIN v THEN StringToNumber(v.str)
    ELSE v



(***************************************************************************)
(* Text formats.                                                           *)
(***************************************************************************)
\* FORMAT : the four format constants.
FORMAT == {"moodle", "html", "plain", "markdown"}

\* The characters of a format's name.
FormatText(fmt) ==
    CASE fmt = "html" -> <<"h", "t", "m", "l">>
      [] fmt = "plain" -> <<"p", "l", "a", "i", "n">>
      [] fmt = "markdown" -> <<"m", "a", "r", "k", "d", "o", "w", "n">>
      [] OTHER -> <<"m", "o", "o", "d", "l", "e">>

formatNameToConst(name) ==
    LET n == ToLowerCase(name)
    IN  IF name = <<>> THEN "moodle"
        ELSE IF n = FormatText("moodle") THEN "moodle"
        ELSE IF n = FormatText("html") THEN "html"
        ELSE IF n = FormatText("plain") THEN "plain"
        ELSE IF n = FormatText("markdown") THEN "markdown"
        ELSE "moodle"

formatConstToName(fmt) == FormatText(fmt)

\* The text and format of a non-empty text whose first "]" is at close.
TaggedText(text, close, defaultFormat) ==
    LET tagged == Head(text) = "[" /\ close > 1
    IN  [ text |-> escapedcharPost(Trim(
                     IF tagged /\ close < Len(text) THEN DropTo(text, close + 1)
                     ELSE text)),
          format |-> IF tagged THEN formatNameToConst(SubSeq(text, 2, close - 1))
                     ELSE defaultFormat ]

parseTextWithFormat(text, defaultFormat) ==
    IF text = <<>> THEN [text |-> <<>>, format |-> defaultFormat]
    ELSE TaggedText(text, IndexOf(text, <<"]">>), defaultFormat)

\* A text with no format given: what the callers build for absent feedback.
NoText(defaultFormat) == [text |-> <<>>, format |-> defaultFormat]

\* The n-th bit of a split with its format, or the empty text when the
\* split has fewer bits.
BitText(bits, n, defaultFormat) ==
    IF Len(bits) >= n THEN parseTextWithFormat(Trim(bits[n]), defaultFormat)
    ELSE NoText(defaultFormat)

\* [ans, wrong, right] of the bits of the split.
TrueFalseBits(bits, defaultFormat) ==
    << BitText(bits, 1, defaultFormat), BitText(bits, 2, defaultFormat),
       BitText(bits, 3, defaultFormat) >>

splitTrueFalseComment(answer, defaultFormat) ==
    TrueFalseBits(SplitLimit(answer, <<"#">>, 3), defaultFormat)

\* [ans, feedback] of the bits of the split.
CommentBits(bits, defaultFormat) ==
    << BitText(bits, 1, defaultFormat), BitText(bits, 2, defaultFormat) >>

commentParser(answer, defaultFormat) ==
    CommentBits(SplitLimit(answer, <<"#">>, 2), defaultFormat)

(***************************************************************************)
(* The weight prefix.                                                      *)
(***************************************************************************)
\* The match of /^%\-?([0-9]{1,2})(?:\.([0-9]*))?%/ at the start of
\* answerStr: its length and its two groups; the length is 0 when there is
\* no match.
NoWeightMatch == [length |-> 0, whole |-> <<>>, decimals |-> <<>>]

\* The closing % after the groups, which end before position at.
PercentMatch(answerStr, whole, decimals, at) ==
    IF at <= Len(answerStr) /\ answerStr[at] = "%"
    THEN [length |-> at, whole |-> whole, decimals |-> decimals]
    ELSE NoWeightMatch

\* The second group, the digits decimals that follow the point at position
\* at - 1.
DecimalsMatch(answerStr, whole, decimals, at) ==
    PercentMatch(answerStr, whole, decimals, at + Len(decimals))

\* The first group, one or two digits that start at position from, and the
\* optional point after it.
WholeMatch(answerStr, whole, from) ==
    IF Len(whole) \notin {1, 2} THEN NoWeightMatch
    ELSE IF from + Len(whole) <= Len(answerStr) /\ answerStr[from + Len(whole)] = "."
    THEN DecimalsMatch(answerStr, whole,
                       DigitPrefix(DropTo(answerStr, from + Len(whole) + 1)),
                       from + Len(whole) + 1)
    ELSE PercentMatch(answerStr, whole, <<>>, from + Len(whole))

\* The digits after the % and the optional minus sign, which is matched and
\* belongs to no group.
SignMatch(answerStr, from) ==
    WholeMatch(answerStr, DigitPrefix(DropTo(answerStr, from)), from)

WeightMatch(answerStr) ==
    IF answerStr = <<>> \/ Head(answerStr) # "%" THEN NoWeightMatch
    ELSE SignMatch(answerStr,
                   IF Len(answerStr) > 1 /\ answerStr[2] = "-" THEN 3 ELSE 2)

\* num/100
Percent(v) == DblOver(v, 100)

\* The weight and the rest, given the match m.
WeightOf(answerStr, m) ==
    IF m.length = 0 THEN [weight |-> Null, rest |-> answerStr]
    ELSE [ weight |-> Percent(parseFloat(
                        m.whole \o (IF m.decimals # <<>> THEN <<".">> \o m.decimals
                                    ELSE <<>>))),
           rest |-> DropTo(answerStr, m.length + 1) ]

\* weight is Null when there is no prefix, a number otherwise.
parseWeight(answerStr) == WeightOf(answerStr, WeightMatch(answerStr))


(***************************************************************************)
(* Metadata in the comment lines.                                          *)
(***************************************************************************)
\* The control characters the two patterns shut out, within the characters
\* the model uses.
ControlChars == {NL, TAB, "\r"}

\* Where the greedy loop (?:\\\]|[^\]...])+ stops when it starts at q: the
\* first position that is neither an escaped bracket nor an allowed character.
RECURSIVE GreedyEnd(_, _, _)
GreedyEnd(block, q, shut) ==
    IF q > Len(block) THEN q
    ELSE IF block[q] = BS /\ q < Len(block) /\ block[q + 1] = "]"
         THEN GreedyEnd(block, q + 2, shut)
    ELSE IF block[q] = "]" \/ block[q] \in shut THEN q
    ELSE GreedyEnd(block, q + 1, shut)

\* The position of the bracket that closes the capture opened at q, or 0:
\* the bracket the greedy loop stops at, or, when the loop stops elsewhere,
\* the last escaped bracket it went over (the regex backtracks to it).
CaptureEnd(block, q, shut) ==
    LET r == GreedyEnd(block, q, shut)
        over == { p \in q .. (r - 1) : block[p] = "]" }
    IN  IF r <= Len(block) /\ block[r] = "]" /\ r > q THEN r
        ELSE IF over = {} THEN 0
        ELSE CHOOSE p \in over : \A o \in over : p >= o

\* The start of the first match of prefix and capture at or after from, or 0.
RECURSIVE FirstCapture(_, _, _, _)
FirstCapture(block, prefix, shut, from) ==
    LET p == IndexFrom(block, prefix, from)
    IN  IF p = 0 THEN 0
        ELSE IF CaptureEnd(block, p + Len(prefix), shut) # 0 THEN p
        ELSE FirstCapture(block, prefix, shut, p + 1)

\* m[1].replace(/\\\]/g, ']').trim() of the capture that starts at p.
Captured(block, prefix, shut, p) ==
    LET q == p + Len(prefix)
    IN  Trim(ReplaceAll(SubSeq(block, q, CaptureEnd(block, q, shut) - 1),
                        <<BS, "]">>, <<"]">>))

IdPrefix == <<"[", "i", "d", ":">>
TagPrefix == <<"[", "t", "a", "g", ":">>
\* The tag pattern also shuts out the angle brackets (and the backquote, a
\* character no text of the model holds).
TagShut == ControlChars \cup {"<", ">"}

\* The while loop over tagRe.exec: every match, each search resuming after
\* the one before.
RECURSIVE TagsFrom(_, _)
TagsFrom(block, from) ==
    LET p == FirstCapture(block, TagPrefix, TagShut, from)
    IN  IF p = 0 THEN <<>>
        ELSE <<Captured(block, TagPrefix, TagShut, p)>>
             \o TagsFrom(block, CaptureEnd(block, p + Len(TagPrefix), TagShut) + 1)

extractIdnumberAndTags(commentBlock) ==
    LET p == FirstCapture(commentBlock, IdPrefix, ControlChars, 1)
    IN  [ idnumber |-> IF p = 0 THEN <<>>
                       ELSE Captured(commentBlock, IdPrefix, ControlChars, p),
          tags |-> TagsFrom(commentBlock, 1) ]

(***************************************************************************)
(* The parser of one block.                                                *)
(***************************************************************************)
defaultQuestion ==
    [ name |-> <<>>, qtype |-> "", questiontext |-> <<>>,
      questiontextformat |-> "moodle", generalfeedback |-> <<>>,
      generalfeedbackformat |-> "moodle", idnumber |-> <<>>, tags |-> <<>> ]

\* str.replace(/<[^>]*>/g, '')
RECURSIVE StripTags(_)
StripTags(str) ==
    LET open == IndexOf(str, <<"<">>)
        shut == IndexFrom(str, <<">">>, open + 1)
    IN  IF open = 0 \/ shut = 0 THEN str
        ELSE SubSeq(str, 1, open - 1) \o StripTags(DropTo(str, shut + 1))

\* The trimmed lines that start with //, each followed by a newline.
RECURSIVE CommentsOf(_)
CommentsOf(lines) ==
    IF lines = <<>> THEN <<>>
    ELSE (IF StartsAt(Trim(Head(lines)), <<"/", "/">>, 1)
          THEN Trim(Head(lines)) \o <<NL>> ELSE <<>>) \o CommentsOf(Tail(lines))

\* lines.map: a comment line becomes one blank, every other line stays.
WorkOf(lines) ==
    [ l \in 1 .. Len(lines) |->
        IF StartsAt(Trim(lines[l]), <<"/", "/">>, 1) THEN <<SP>> ELSE lines[l] ]


\* What a call ends with: a question, nothing (null), or a thrown Error.
Question(q) == [question |-> q]
NoQuestion == [null |-> TRUE]
Thrown(message) == [thrown |-> message]

\* The characters of a text as the one string an Error message holds.
RECURSIVE TextOf(_)
TextOf(text) ==
    IF text = <<>> THEN ""
    ELSE IF Len(text) = 1 THEN text[1]
    ELSE TextOf(LowHalf(text)) \o TextOf(HighHalf(text))
IsThrown(r) == "thrown" \in DOMAIN r
IsQuestion(r) == "question" \in DOMAIN r

\* The first Error thrown while a loop builds its items one by one, or the
\* items when none is thrown.
RECURSIVE FirstThrown(_)
FirstThrown(rs) ==
    IF rs = <<>> THEN NoQuestion
    ELSE IF IsThrown(Head(rs)) THEN Head(rs) ELSE FirstThrown(Tail(rs))

\* The answer span between the braces at answerStart and answerFinish, and
\* the question text around it; a description when there is no brace, an
\* Error when the braces do not pair.
SpanBetween(text, answerStart, answerFinish) ==
    IF answerStart = 0 /\ answerFinish = 0
    THEN [description |-> TRUE, answertext |-> <<>>, questiontext |-> text]
    ELSE IF answerStart = 0 \/ answerFinish = 0 \/ answerFinish < answerStart
    THEN Thrown("Brace error in question: " \o TextOf(escapedcharPost(text)))
    ELSE [ description |-> FALSE,
           answertext |-> Trim(SubSeq(text, answerStart + 1, answerFinish - 1)),
           questiontext |->
               SubSeq(text, 1, answerStart - 1)
               \o (IF TrimRight(text)[Len(TrimRight(text))] = "}" THEN <<>>
                   ELSE <<"_", "_", "_", "_", "_">>)
               \o DropTo(text, answerFinish + 1) ]

\* A slip: the span ends at the first closing brace.
BraceSpan_FirstClose(text) ==
    SpanBetween(text, IndexOf(text, <<"{">>), IndexOf(text, <<"}">>))

\* The brace handling of parseQuestion, on the masked text without its name.
BraceSpan(text) ==
    SpanBetween(text, IndexOf(text, <<"{">>), LastIndexOf(text, <<"}">>))

\* The last two rules of "Determine qtype": truefalse when the text before
\* the first number sign is a verdict, shortanswer otherwise.
TrueFalseOrShort(answertext) ==
    LET tfcheck == ToUpperCase(Trim(
            IF Includes(answertext, <<"#">>)
            THEN SplitLimit(answertext, <<"#">>, 1)[1] ELSE answertext))
    IN  IF tfcheck \in { <<"T">>, <<"T", "R", "U", "E">>, <<"F">>,
                         <<"F", "A", "L", "S", "E">> }
        THEN "truefalse" ELSE "shortanswer"

\* A slip: the tilde is looked for before the leading number sign.
Classify_TildeFirst(answertext) ==
    IF Includes(answertext, <<"~">>) THEN "multichoice"
    ELSE IF answertext[1] = "#" THEN "numerical"
    ELSE IF Includes(answertext, <<"=">>) /\ Includes(answertext, <<"-", ">">>)
    THEN "match"
    ELSE TrueFalseOrShort(answertext)

\* "Determine qtype": the type of a non-empty answer text.
Classify(answertext) ==
    IF answertext[1] = "#" THEN "numerical"
    ELSE IF Includes(answertext, <<"~">>) THEN "multichoice"
    ELSE IF Includes(answertext, <<"=">>) /\ Includes(answertext, <<"-", ">">>)
    THEN "match"
    ELSE TrueFalseOrShort(answertext)

\* The record an alternative of a multichoice question is pushed as, given
\* its weight and the [ans, feedback] of the text after the weight.
Choice(weight, cp) ==
    [ answer |-> cp[1].text, answerformat |-> cp[1].format, fraction |-> weight,
      feedback |-> cp[2].text, feedbackformat |-> cp[2].format ]

\* The alternative of a weight and the text after it.
WeightedChoice(w, format) == Choice(w.weight, commentParser(w.rest, format))

\* The weight and the rest of an alternative that is not marked with '=':
\* the prefix when it has one, 0 otherwise.
Unmarked(part, pw) ==
    IF pw.weight # Null THEN pw ELSE [weight |-> Num(0), rest |-> part]

\* A slip: a leading equals sign is not read as the marker.
ChoiceAnswer_MarkIgnored(part, format) ==
    WeightedChoice(Unmarked(part, parseWeight(part)), format)

\* One alternative of a multichoice question.
ChoiceAnswer(part, format) ==
    IF Head(part) = "="
    THEN WeightedChoice([weight |-> Num(Thousand), rest |-> Tail(part)], format)
    ELSE WeightedChoice(Unmarked(part, parseWeight(part)), format)

MinChoices == 2

\* A slip: one alternative is enough.
ParseMultichoice_AllowOne(answertext, format) ==
    LET parts == SplitTrimmed(ReplaceAll(answertext, <<"=">>, <<"~", "=">>), <<"~">>)
    IN  IF Len(parts) < 1 THEN Thrown("Multiple choice requires at least 2 answers")
        ELSE [ fields |->
                 [ answernumbering |-> "abc",
                   single |-> IF Includes(answertext, <<"=">>) THEN 1 ELSE 0,
                   answers |-> [ a \in 1 .. Len(parts) |-> ChoiceAnswer(parts[a], format) ] ] ]

\* case 'multichoice'
ParseMultichoice(answertext, format) ==
    LET parts == SplitTrimmed(ReplaceAll(answertext, <<"=">>, <<"~", "=">>), <<"~">>)
    IN  IF Len(parts) < MinChoices
        THEN Thrown("Multiple choice requires at least 2 answers")
        ELSE [ fields |->
                 [ answernumbering |-> "abc",
                   single |-> IF Includes(answertext, <<"=">>) THEN 1 ELSE 0,
                   answers |-> [ a \in 1 .. Len(parts) |-> ChoiceAnswer(parts[a], format) ] ] ]

MinPairs == 2

\* The record a pair is pushed as, given its parsed left side and its
\* trimmed right side.
Subquestion(leftParsed, right) ==
    [ questiontext |-> leftParsed.text, questiontextformat |-> leftParsed.format,
      answertext |-> escapedcharPost(right) ]

\* One pair of a match question, whose first "->" is at marker.
MatchPair(p, marker, format) ==
    IF marker = 0 THEN Thrown("Matching pair must contain ->")
    ELSE Subquestion(parseTextWithFormat(SubSeq(p, 1, marker - 1), format),
                     Trim(DropTo(p, marker + 2)))

\* The loop over the pairs: the first Error, or the subquestions.
MatchFields(pairs) ==
    IF IsThrown(FirstThrown(pairs)) THEN FirstThrown(pairs)
    ELSE [fields |-> [subquestions |-> pairs]]

\* The match question of the '='-parts.
MatchOf(parts, format) ==
    IF Len(parts) < MinPairs THEN Thrown("Matching requires at least 2 pairs")
    ELSE MatchFields([ k \in 1 .. Len(parts) |->
                         MatchPair(parts[k], IndexOf(parts[k], <<"-", ">">>), format) ])

\* case 'match'
ParseMatch(answertext, format) == MatchOf(SplitTrimmed(answertext, <<"=">>), format)

\* The fields of a true/false question, given [ans, wrongfb, rightfb].
TrueFalseFields(tf) ==
    LET isTrue == ToUpperCase(tf[1].text) \in { <<"T">>, <<"T", "R", "U", "E">> }
    IN  [ fields |->
            [ correctanswer |-> IF isTrue THEN 1 ELSE 0,
              feedbacktrue |-> IF isTrue THEN tf[3] ELSE tf[2],
              feedbackfalse |-> IF isTrue THEN tf[2] ELSE tf[3],
              penalty |-> 1 ] ]

\* case 'truefalse'
ParseTrueFalse(answertext, format) ==
    TrueFalseFields(splitTrueFalseComment(answertext, format))

\* The weight and the rest of a shortanswer or numerical part: 1 by default.
WeightedPart(p) ==
    LET pw == parseWeight(p)
    IN  IF pw.weight # Null THEN pw ELSE [weight |-> Num(Thousand), rest |-> p]

\* The record a shortanswer part is pushed as.
ShortAnswer(weight, cp) ==
    [ answer |-> cp[1].text, fraction |-> weight,
      feedback |-> cp[2].text, feedbackformat |-> cp[2].format ]

\* The answer of a weight and the text after it.
WeightedAnswer(w, format) == ShortAnswer(w.weight, commentParser(w.rest, format))

\* case 'shortanswer'
ParseShortanswer(answertext, format) ==
    LET parts == SplitTrimmed(answertext, <<"=">>)
    IN  IF parts = <<>> THEN Thrown("Shortanswer requires at least 1 answer")
        ELSE [ fields |->
                 [ answers |-> [ k \in 1 .. Len(parts) |->
                                   WeightedAnswer(WeightedPart(parts[k]), format) ] ] ]

\* The record a numerical part is pushed as.
NumericalEntry(ans, tol, weight, fb) ==
    [ answer |-> ans, tolerance |-> tol, fraction |-> weight,
      feedback |-> fb.text, feedbackformat |-> fb.format ]

\* ans = (max+min)/2; tol = max - ans
RangeAround(max, ans, weight, fb) == NumericalEntry(ans, DblMinus(max, ans), weight, fb)

\* raw holds "..": the answer is the middle of the range, the tolerance what
\* is left of max over it.
RangeEntry(min, max, weight, fb) ==
    IF ~IsFinite(min) \/ ~IsFinite(max)
    THEN Thrown("Numerical range must be numbers")
    ELSE RangeAround(max, DblOver(DblPlus(max, min), 2), weight, fb)

\* const [min,max] = raw.split('..').map(s=>parseFloat(s.trim()))
RangeOf(ends, weight, fb) ==
    RangeEntry(parseFloat(Trim(ends[1])), parseFloat(Trim(ends[2])), weight, fb)

\* raw holds ":": the answer before it and the tolerance after it.
ToleranceEntry(value, margin, weight, fb) ==
    IF ~IsFinite(value) \/ ~IsFinite(margin)
    THEN Thrown("Numerical answer and tolerance must be numbers")
    ELSE NumericalEntry(value, margin, weight, fb)

\* The entry of a raw text whose first ":" is at idx.
ToleranceAt(raw, idx, weight, fb) ==
    ToleranceEntry(parseFloat(Trim(SubSeq(raw, 1, idx - 1))),
                   parseFloat(Trim(DropTo(raw, idx + 1))), weight, fb)

\* raw holds neither: a bare number, or the wildcard.
BareEntry(bare, raw, weight, fb) ==
    IF ~(IsFinite(bare) \/ Trim(raw) = <<"*">>)
    THEN Thrown("Numerical answer must be a number")
    ELSE NumericalEntry(bare, Num(0), weight, fb)

\* The three forms of a numerical answer.
NumericalValue(raw, weight, fb) ==
    IF Includes(raw, <<".", ".">>) THEN RangeOf(Split(raw, <<".", ".">>), weight, fb)
    ELSE IF Includes(raw, <<":">>) THEN ToleranceAt(raw, IndexOf(raw, <<":">>), weight, fb)
    ELSE BareEntry(parseFloat(Trim(raw)), raw, weight, fb)

\* The entry of a weight and the text after it.
WeightedNumerical(w, format) ==
    LET cp == commentParser(w.rest, format)
    IN  NumericalValue(cp[1].text, w.weight, cp[2])

\* One '='-part of a numerical question: its value and tolerance.
NumericalAnswer(p, format) == WeightedNumerical(WeightedPart(p), format)

\* The entry pushed for the text from the first tilde on.
Wildcard(fb) ==
    [ answer |-> Str(<<"*">>), tolerance |-> Str(<<>>), fraction |-> Num(0),
      feedback |-> fb.text, feedbackformat |-> fb.format ]

\* The loop over the parts and what follows it: the first Error, or the
\* answers with the wildcard entry after them.
NumericalFields(answers, wrongfeedback, format) ==
    IF IsThrown(FirstThrown(answers)) THEN FirstThrown(answers)
    ELSE [ fields |->
             [ answers |->
                 IF wrongfeedback # <<>>
                 THEN answers \o <<Wildcard(commentParser(wrongfeedback, format)[2])>>
                 ELSE answers ] ]

\* The numerical question of the '='-parts and the wrong feedback.
NumericalOf(parts, wrongfeedback, format) ==
    IF parts = <<>> THEN Thrown("Numerical requires answers")
    ELSE NumericalFields([ k \in 1 .. Len(parts) |-> NumericalAnswer(parts[k], format) ],
                         wrongfeedback, format)

\* The body after the leading number sign, whose first tilde is at tpos.
NumericalBody(body, tpos, format) ==
    NumericalOf(SplitTrimmed(IF tpos # 0 THEN SubSeq(body, 1, tpos - 1) ELSE body, <<"=">>),
                IF tpos # 0 THEN DropTo(body, tpos) ELSE <<>>, format)

\* case 'numerical'
ParseNumerical(answertext, format) ==
    NumericalBody(Tail(answertext), IndexOf(Tail(answertext), <<"~">>), format)

CategoryMark == <<"$", "C", "A", "T", "E", "G", "O", "R", "Y", ":">>

NameLength == 30

\* q.questiontext.replace(/<[^>]*>/g,'').slice(0, 30) || 'Question'
DefaultName(questiontext) ==
    LET short == Prefix(StripTags(questiontext), NameLength)
    IN  IF short # <<>> THEN short ELSE <<"Q", "u", "e", "s", "t", "i", "o", "n">>

\* The fields every question but a category carries, from the parsed texts.
NamedFields(name, qt, gf, meta) ==
    [ name |-> IF name # <<>> THEN name ELSE DefaultName(qt.text),
      qtype |-> "",
      questiontext |-> qt.text, questiontextformat |-> qt.format,
      generalfeedback |-> gf.text, generalfeedbackformat |-> gf.format,
      idnumber |-> meta.idnumber, tags |-> meta.tags ]

\* The general feedback takes the format of the question text by default.
FormattedFields(name, qt, generalfeedback, comments) ==
    NamedFields(name, qt, parseTextWithFormat(generalfeedback, qt.format),
                extractIdnumberAndTags(comments))

\* The fields every question but a category carries, filled in before the
\* type is determined.
CommonFields(name, questiontext, generalfeedback, comments) ==
    FormattedFields(name, parseTextWithFormat(questiontext, "moodle"),
                    generalfeedback, comments)

\* The switch over q.qtype.
ParseVariant(qtype, answertext, format) ==
    CASE qtype = "multichoice" -> ParseMultichoice(answertext, format)
      [] qtype = "match" -> ParseMatch(answertext, format)
      [] qtype = "truefalse" -> ParseTrueFalse(answertext, format)
      [] qtype = "shortanswer" -> ParseShortanswer(answertext, format)
      [] qtype = "numerical" -> ParseNumerical(answertext, format)
      [] OTHER -> Thrown("Unhandled qtype")

\* The name wrapper: the name and the text after it.
NameSplit(text) ==
    LET pos == IF StartsAt(text, <<":", ":">>, 1) THEN IndexFrom(text, <<":", ":">>, 3) ELSE 0
        nm == SubSeq(text, 3, pos - 1)
    IN  IF pos = 0 THEN [name |-> <<>>, text |-> text]
        ELSE [name |-> escapedcharPost(nm), text |-> Trim(DropTo(text, pos + 2))]

\* The question of a type with answers: the Error of its case, or the common
\* fields with the fields of the case.
TypedQuestion(q, qtype, variant) ==
    IF IsThrown(variant) THEN variant
    ELSE Question([q EXCEPT !.qtype = qtype] @@ variant.fields)

\* The question of a non-empty answer text.
ClassifiedQuestion(q, qtype, answertext) ==
    TypedQuestion(q, qtype, ParseVariant(qtype, answertext, q.questiontextformat))

\* "Determine qtype": description, essay, or one of the types with answers.
DeterminedQuestion(q, description, answertext) ==
    IF description
    THEN Question([q EXCEPT !.qtype = "description"] @@ [defaultmark |-> 0, length |-> 0])
    ELSE IF answertext = <<>>
    THEN Question([q EXCEPT !.qtype = "essay"]
                  @@ [ responseformat |-> "editor", responserequired |-> 1,
                       responsefieldlines |-> 15, attachments |-> 0,
                       attachmentsrequired |-> 0,
                       graderinfo |-> [text |-> <<>>, format |-> "html"],
                       responsetemplate |-> [text |-> <<>>, format |-> "html"] ])
    ELSE ClassifiedQuestion(q, Classify(answertext), answertext)

\* The general feedback, after the last "####" of the answer text at gfidx,
\* is taken off the answer text.
FeedbackQuestion(name, span, gfidx, comments) ==
    DeterminedQuestion(
        CommonFields(name, span.questiontext,
                     IF gfidx # 0 THEN DropTo(span.answertext, gfidx + 4) ELSE <<>>,
                     comments),
        span.description,
        IF gfidx # 0 THEN Trim(SubSeq(span.answertext, 1, gfidx - 1))
        ELSE span.answertext)

\* The brace error ends the call; otherwise the question is built.
SpanQuestion(name, span, comments) ==
    IF IsThrown(span) THEN span
    ELSE FeedbackQuestion(name, span,
                          LastIndexOf(span.answertext, <<"#", "#", "#", "#">>), comments)

\* The question of the text after its name wrapper.
NamedQuestion(named, comments) ==
    SpanQuestion(named.name, BraceSpan(named.text), comments)

\* The question of the masked text: a category, or a question.
MaskedQuestion(masked, comments) ==
    IF StartsAt(masked, CategoryMark, 1)
    THEN Question([defaultQuestion EXCEPT !.qtype = "category"]
                  @@ [category |-> Trim(DropTo(masked, Len(CategoryMark) + 1))])
    ELSE NamedQuestion(NameSplit(masked), comments)

\* The question of the joined lines: nothing when they are empty.
JoinedQuestion(joined, comments) ==
    IF joined = <<>> THEN NoQuestion
    ELSE MaskedQuestion(escapedcharPre(joined), comments)

parseQuestion(lines) ==
    JoinedQuestion(Trim(Join(WorkOf(lines), <<NL>>)), CommentsOf(lines))


(***************************************************************************)
(* The exporter.                                                           *)
(***************************************************************************)
\* q.field, or fallback when the object has no such field.
Field(q, field, fallback) == IF field \in DOMAIN q THEN q[field] ELSE fallback

\* a || b of two formats; a field the object lacks is read as '', since
\* undefined and '' are both falsy wherever a format is used.
Either(a, b) == IF a # "" THEN a ELSE b

writeQuestionText(text, format, defaultFormat) ==
    (IF text # <<>> /\ format # "" /\ format # defaultFormat
     THEN <<"[">> \o formatConstToName(format) \o <<"]">> ELSE <<>>)
    \o repchar(text)

writeName(name) == <<":", ":">> \o repchar(name) \o <<":", ":">>

\* String(x).replace(/\]/g, '\\]')
EscapeBracket(x) == ReplaceAll(x, <<"]">>, <<BS, "]">>)

writeIdnumberAndTags(q) ==
    LET idnumber == Field(q, "idnumber", <<>>)
        tags == Field(q, "tags", <<>>)
        bits == (IF idnumber # <<>>
                 THEN << <<"[", "i", "d", ":">> \o EscapeBracket(idnumber) \o <<"]">> >> ELSE <<>>)
                \o [ n \in 1 .. Len(tags) |-> <<"[", "t", "a", "g", ":">> \o EscapeBracket(tags[n]) \o <<"]">> ]
    IN  IF Field(q, "qtype", "undefined") = "category" THEN <<>>
        ELSE IF bits = <<>> THEN <<>>
        ELSE <<"/", "/", " ">> \o Join(bits, <<SP>>) \o <<NL>>

writeGeneralFeedback(q, indent) ==
    LET gf == writeQuestionText(Field(q, "generalfeedback", <<>>),
                                Field(q, "generalfeedbackformat", ""),
                                Field(q, "questiontextformat", "moodle"))
        line == <<"#", "#", "#", "#">> \o gf
    IN  IF gf = <<>> THEN <<>>
        ELSE IF indent # <<>> THEN indent \o line \o <<NL>> ELSE line

\* `${x * 100}` of a number or a string.
TimesHundredText(v) == NumberText(DblTimes(ToNumber(v), 100))

\* `${(fraction ?? 1) * 100}` of a fraction after the JSON clone.
WeightText(fraction) ==
    TimesHundredText(IF fraction = Null \/ fraction = Undefined THEN Num(Thousand)
                     ELSE fraction)

\* `${x}` of a numerical answer after the JSON clone.
AnswerText(a) ==
    IF "str" \in DOMAIN a THEN a.str
    ELSE IF a = Null THEN <<"n", "u", "l", "l">>
    ELSE IF a = Undefined THEN <<"u", "n", "d", "e", "f", "i", "n", "e", "d">>
    ELSE NumberText(a)

\* `${Number(x)}` of a tolerance after the JSON clone.
ToleranceText(tol) == NumberText(ToNumber(tol))

\* The lines of the answers of one question.
MultichoiceLine(q, ans) ==
    LET fmt == Field(q, "questiontextformat", "moodle")
        own == Field(q, "questiontextformat", "")
        fraction == Cloned(Field(ans, "fraction", Undefined))
        lead == IF fraction = Num(Thousand) /\ Field(q, "single", 0) = 1 THEN <<"=">>
                ELSE IF Falsy(fraction) THEN <<"~">>
                ELSE <<"~", "%">> \o TimesHundredText(fraction) \o <<"%">>
        feedback == Field(ans, "feedback", <<>>)
    IN  <<TAB>> \o lead
        \o writeQuestionText(Field(ans, "answer", <<>>),
                             Either(Field(ans, "answerformat", ""), own), fmt)
        \o (IF feedback # <<>>
            THEN <<"#">> \o writeQuestionText(feedback,
                                               Either(Field(ans, "feedbackformat", ""), own), fmt)
            ELSE <<>>)
        \o <<NL>>

ShortanswerLine(q, ans) ==
    LET fmt == Field(q, "questiontextformat", "moodle")
    IN  <<TAB, "=", "%">> \o WeightText(Cloned(Field(ans, "fraction", Undefined)))
        \o <<"%">> \o repchar(Field(ans, "answer", <<>>)) \o <<"#">>
        \o writeQuestionText(Field(ans, "feedback", <<>>),
                             Either(Field(ans, "feedbackformat", ""),
                                    Field(q, "questiontextformat", "")), fmt)
        \o <<NL>>

NumericalLine(q, ans) ==
    LET fmt == Field(q, "questiontextformat", "moodle")
        fb == writeQuestionText(Field(ans, "feedback", <<>>),
                                Either(Field(ans, "feedbackformat", ""),
                                       Field(q, "questiontextformat", "")), fmt)
        answer == Cloned(Field(ans, "answer", Undefined))
    IN  IF answer # Str(<<"*">>) /\ answer # Str(<<>>)
        THEN <<TAB, "=", "%">> \o WeightText(Cloned(Field(ans, "fraction", Undefined)))
             \o <<"%">> \o AnswerText(answer) \o <<":">>
             \o ToleranceText(Cloned(Field(ans, "tolerance", Undefined)))
             \o <<"#">> \o fb \o <<NL>>
        ELSE <<TAB, "~", "#">> \o fb \o <<NL>>

MatchLine(q, sq) ==
    LET fmt == Field(q, "questiontextformat", "moodle")
    IN  <<TAB, "=">>
        \o writeQuestionText(Field(sq, "questiontext", <<>>),
                             Either(Field(sq, "questiontextformat", ""),
                                    Field(q, "questiontextformat", "")), fmt)
        \o <<SP, "-", ">", SP>> \o repchar(Field(sq, "answertext", <<>>)) \o <<NL>>

\* The body of a true/false question, between the braces.
TrueFalseBody(q) ==
    LET fmt == Field(q, "questiontextformat", "moodle")
        own == Field(q, "questiontextformat", "")
        isTrue == Field(q, "correctanswer", 0) # 0
        none == [text |-> <<>>, format |-> ""]
        rightfb == IF isTrue THEN Field(q, "feedbacktrue", none) ELSE Field(q, "feedbackfalse", none)
        wrongfb == IF isTrue THEN Field(q, "feedbackfalse", none) ELSE Field(q, "feedbacktrue", none)
        right == writeQuestionText(Field(rightfb, "text", <<>>),
                                   Either(Field(rightfb, "format", ""), own), fmt)
        wrong == writeQuestionText(Field(wrongfb, "text", <<>>),
                                   Either(Field(wrongfb, "format", ""), own), fmt)
    IN  repchar(IF isTrue THEN <<"T", "R", "U", "E">> ELSE <<"F", "A", "L", "S", "E">>)
        \o (IF wrong # <<>> THEN <<"#">> \o wrong
            ELSE IF right # <<>> THEN <<"#">> ELSE <<>>)
        \o (IF right # <<>> THEN <<"#">> \o right ELSE <<>>)

\* The types writeOne has a case for.
ExportedTypes ==
    {"category", "description", "essay", "truefalse", "multichoice", "shortanswer",
     "numerical", "match"}

\* The text of one question, or the Error of the default case.
writeOne(q) ==
    LET qtype == Field(q, "qtype", "undefined")
        name == Field(q, "name", <<>>)
        header == <<"/", "/", " ", "q", "u", "e", "s", "t", "i", "o", "n", ":", " ">> \o Field(q, "id", <<>>) \o <<" ", " ", "n", "a", "m", "e", ":", " ">> \o name \o <<NL>>
                  \o writeIdnumberAndTags(q)
        stem == writeName(name)
                \o writeQuestionText(Field(q, "questiontext", <<>>),
                                     Field(q, "questiontextformat", ""), "moodle")
        answers == Field(q, "answers", <<>>)
        subquestions == Field(q, "subquestions", <<>>)
        body ==
            CASE qtype = "category" -> <<"$", "C", "A", "T", "E", "G", "O", "R", "Y", ":", " ">> \o Field(q, "category", <<"u", "n", "d", "e", "f", "i", "n", "e", "d">>) \o <<NL>>
              [] qtype = "description" -> stem
              [] qtype = "essay" ->
                    stem \o <<"{">> \o writeGeneralFeedback(q, <<>>) \o <<"}", NL>>
              [] qtype = "truefalse" ->
                    stem \o <<"{">> \o TrueFalseBody(q) \o writeGeneralFeedback(q, <<>>)
                    \o <<"}", NL>>
              [] qtype = "multichoice" ->
                    stem \o <<"{", NL>>
                    \o Concat([ n \in 1 .. Len(answers) |-> MultichoiceLine(q, answers[n]) ])
                    \o writeGeneralFeedback(q, <<TAB>>) \o <<"}", NL>>
              [] qtype = "shortanswer" ->
                    stem \o <<"{", NL>>
                    \o Concat([ n \in 1 .. Len(answers) |-> ShortanswerLine(q, answers[n]) ])
                    \o writeGeneralFeedback(q, <<TAB>>) \o <<"}", NL>>
              [] qtype = "numerical" ->
                    stem \o <<"{", "#", NL>>
                    \o Concat([ n \in 1 .. Len(answers) |-> NumericalLine(q, answers[n]) ])
                    \o writeGeneralFeedback(q, <<TAB>>) \o <<"}", NL>>
              [] qtype = "match" ->
                    stem \o <<"{", NL>>
                    \o Concat([ n \in 1 .. Len(subquestions) |-> MatchLine(q, subquestions[n]) ])
                    \o writeGeneralFeedback(q, <<TAB>>) \o <<"}", NL>>
    IN  IF qtype \notin ExportedTypes
        THEN Thrown("Unsupported qtype in exporter: " \o qtype)
        ELSE [text |-> header \o body \o <<NL>>]

(***************************************************************************)
(* State.                                                                  *)
(*                                                                         *)
(* The escaper: s is a text, cur what the calls made so far turned it      *)
(* into, stage the last call made, via who makes the calls.                *)
(*                                                                         *)
(* parseGift: input is its argument, lines, i, buf and questions its       *)
(* locals, pc its position ("scan" inside the loop, "returned" or "threw"  *)
(* once it has ended), returned the value its caller receives and error    *)
(* the message of the Error it threw.                                      *)
(*                                                                         *)
(* exportGift: toExport is its argument, k and out its locals, xpc its     *)
(* position, exported the text its caller receives, xerror the message of  *)
(* the Error it threw.                                                     *)
(*                                                                         *)
(* round counts the parses of a round trip and first keeps what the first  *)
(* parse returned; given records how the input was put together.           *)
(*                                                                         *)
(* parseTextWithFormat called on its own: ftext and fdefault are its       *)
(* arguments, fresult what it returned, fpc its position.                  *)
(***************************************************************************)
VARIABLES s, cur, stage, via,
          input, lines, i, buf, questions, pc, returned, error,
          toExport, k, out, xpc, exported, xerror,
          round, first, given,
          ftext, fdefault, fresult, fpc

escVars == <<s, cur, stage, via>>
parseVars == <<input, lines, i, buf, questions, pc, returned, error>>
exportVars == <<toExport, k, out, xpc, exported, xerror>>
tripVars == <<round, first, given>>
formatVars == <<ftext, fdefault, fresult, fpc>>
vars == <<escVars, parseVars, exportVars, tripVars, formatVars>>

\* The value of a variable that holds nothing yet.
Nothing == [nothing |-> TRUE]

EscIdle == s = <<>> /\ cur = <<>> /\ stage = "off" /\ via = "off"

ParseIdle ==
    /\ input = <<>> /\ lines = <<>> /\ i = 1 /\ buf = <<>> /\ questions = <<>>
    /\ pc = "idle" /\ returned = Nothing /\ error = ""

ExportIdle ==
    /\ toExport = <<>> /\ k = 1 /\ out = <<>> /\ xpc = "idle"
    /\ exported = Nothing /\ xerror = ""

FormatIdle == ftext = <<>> /\ fdefault = "moodle" /\ fresult = Nothing /\ fpc = "idle"

(***************************************************************************)
(* The escaper as a machine: a text is escaped for export and read back    *)
(* (repchar, escapedcharPre, escapedcharPost), or masked and unmasked as   *)
(* the parser does with raw input (escapedcharPre, escapedcharPost).       *)
(***************************************************************************)
\* The pieces the texts of the escaper are built from: ordinary characters,
\* the reserved characters, and the placeholders of the parser.
EscPieces ==
    { <<"a">>, <<"n">>, <<"&">>, <<BS>>, <<BS, BS>>, <<":">>, <<"#">>, <<"=">>,
      <<"{">>, <<"}">>, <<"~">>, <<NL>>,
      <<"&", "&", "0", "5", "8", ";">>, <<"&", "&", "0", "1", "0">>,
      BackslashMark }

MaxEscPieces == 3

\* The texts made of at most n pieces.
RECURSIVE PieceTexts(_, _)
PieceTexts(pieces, n) ==
    IF n = 0 THEN { <<>> }
    ELSE LET shorter == PieceTexts(pieces, n - 1)
         IN  shorter \cup { t \o p : t \in shorter, p \in pieces }

EscInit ==
    /\ s \in PieceTexts(EscPieces, MaxEscPieces)
    /\ cur = s
    /\ stage = "raw"
    /\ via = "parser"
    /\ ParseIdle /\ ExportIdle /\ FormatIdle
    /\ round = 0 /\ first = Nothing /\ given = Nothing

Repchar ==
    /\ stage = "raw"
    /\ cur' = repchar(cur)
    /\ stage' = "escaped"
    /\ via' = "exporter"
    /\ UNCHANGED <<s, parseVars, exportVars, tripVars, formatVars>>

EscapedcharPre ==
    /\ stage \in {"raw", "escaped"}
    /\ cur' = escapedcharPre(cur)
    /\ stage' = "masked"
    /\ UNCHANGED <<s, via, parseVars, exportVars, tripVars, formatVars>>

EscapedcharPost ==
    /\ stage = "masked"
    /\ cur' = escapedcharPost(cur)
    /\ stage' = "unmasked"
    /\ UNCHANGED <<s, via, parseVars, exportVars, tripVars, formatVars>>

EscNext == Repchar \/ EscapedcharPre \/ EscapedcharPost

SpecEscape == EscInit /\ [][EscNext]_vars

(***************************************************************************)
(* parseGift as a machine: one step per line of the input, and the return. *)
(***************************************************************************)
\* String(input).replace(/\r\n?/g, '\n').split('\n')
LinesOf(text) ==
    Split(ReplaceAll(ReplaceAll(text, <<"\r", NL>>, <<NL>>), <<"\r">>, <<NL>>), <<NL>>)

\* /^\s*$/.test(line)
IsBlank(line) == \A p \in 1 .. Len(line) : line[p] \in WhiteSpace

\* parseGift is called on text.
CallParseGift(text) ==
    /\ input' = text
    /\ lines' = LinesOf(text)
    /\ i' = 1
    /\ buf' = <<>>
    /\ questions' = <<>>
    /\ pc' = "scan"
    /\ returned' = Nothing
    /\ error' = ""

\* The questions after a block gave r: its question, if any, is pushed.
Pushed(r) == IF IsQuestion(r) THEN Append(questions, r.question) ELSE questions

\* A slip: the buffer is not emptied after a block, so its lines are parsed
\* again with the lines of the next block.
Keep_BufferKept(next, r) ==
    /\ buf' = buf
    /\ questions' = Pushed(r)
    /\ pc' = next
    /\ returned' = IF next = "returned" THEN Pushed(r) ELSE returned
    /\ UNCHANGED error

\* The block in buf gave r, which is no Error: the buffer is emptied and the
\* call goes on to next.
Keep(next, r) ==
    /\ buf' = <<>>
    /\ questions' = Pushed(r)
    /\ pc' = next
    /\ returned' = IF next = "returned" THEN Pushed(r) ELSE returned
    /\ UNCHANGED error

\* The block in buf gave r: an Error ends the call, and the caller receives
\* nothing.
Settle(next, r) ==
    IF IsThrown(r)
    THEN /\ pc' = "threw"
         /\ error' = r.thrown
         /\ UNCHANGED <<buf, questions, returned>>
    ELSE Keep(next, r)

\* A slip: a block that does not parse is dropped and the scan goes on.
Flush_SkipMalformed(next) == Keep(next, parseQuestion(buf))

\* flush() : the block in buf is parsed.
Flush(next) == Settle(next, parseQuestion(buf))

\* One turn of the for loop.
ScanLine ==
    /\ pc = "scan"
    /\ i <= Len(lines)
    /\ i' = i + 1
    /\ IF IsBlank(lines[i])
       THEN IF buf # <<>> THEN Flush("scan")
            ELSE UNCHANGED <<buf, questions, pc, returned, error>>
       ELSE /\ buf' = Append(buf, lines[i])
            /\ UNCHANGED <<questions, pc, returned, error>>
    /\ UNCHANGED <<input, lines, escVars, exportVars, tripVars, formatVars>>

\* After the loop: the last block is flushed and the questions are returned.
Return ==
    /\ pc = "scan"
    /\ i > Len(lines)
    /\ IF buf # <<>> THEN Flush("returned")
       ELSE /\ pc' = "returned"
            /\ returned' = questions
            /\ UNCHANGED <<buf, questions, error>>
    /\ UNCHANGED <<input, lines, i, escVars, exportVars, tripVars, formatVars>>

(***************************************************************************)
(* exportGift as a machine: one step per question, and the return.         *)
(***************************************************************************)
\* exportGift is called on qs.
CallExportGift(qs) ==
    /\ toExport' = qs
    /\ k' = 1
    /\ out' = <<>>
    /\ xpc' = "write"
    /\ exported' = Nothing
    /\ xerror' = ""

\* One turn of the for loop: out.push(writeOne(q)); an Error ends the call.
WriteOne ==
    /\ xpc = "write"
    /\ k <= Len(toExport)
    /\ LET r == writeOne(toExport[k])
       IN  IF IsThrown(r)
           THEN /\ xpc' = "threw"
                /\ xerror' = r.thrown
                /\ UNCHANGED <<k, out>>
           ELSE /\ out' = Append(out, r.text)
                /\ k' = k + 1
                /\ UNCHANGED <<xpc, xerror>>
    /\ UNCHANGED <<toExport, exported, escVars, parseVars, tripVars, formatVars>>

\* return out.join('\n')
ReturnText ==
    /\ xpc = "write"
    /\ k > Len(toExport)
    /\ exported' = Join(out, <<NL>>)
    /\ xpc' = "returned"
    /\ UNCHANGED <<toExport, k, out, xerror, escVars, parseVars, tripVars, formatVars>>

(***************************************************************************)
(* The round trip in memory: exportGift is called on the array the first   *)
(* parseGift call returned, with no JSON text between the two, and         *)
(* parseGift is called on the text it returns.                             *)
(***************************************************************************)
Export ==
    /\ round = 1
    /\ pc = "returned"
    /\ xpc = "idle"
    /\ first' = returned
    /\ CallExportGift(returned)
    /\ UNCHANGED <<round, given, escVars, parseVars, formatVars>>

Reparse ==
    /\ round = 1
    /\ xpc = "returned"
    /\ round' = 2
    /\ CallParseGift(exported)
    /\ UNCHANGED <<first, given, escVars, exportVars, formatVars>>

ParseNext == ScanLine \/ Return

\* parseGift starts on text; describe records how text was put together.
ParseInit(text, describe) ==
    /\ EscIdle /\ ExportIdle /\ FormatIdle
    /\ input = text
    /\ lines = LinesOf(text)
    /\ i = 1
    /\ buf = <<>>
    /\ questions = <<>>
    /\ pc = "scan"
    /\ returned = Nothing
    /\ error = ""
    /\ round = 1
    /\ first = Nothing
    /\ given = describe

(***************************************************************************)
(* The inputs.  Each specification starts parseGift on the texts of one     *)
(* family; given tells how the input was made.                             *)
(***************************************************************************)
\* The batches: up to MaxBlocks blocks of the catalogue, a blank line after
\* each but the last.  The catalogue holds one block of every type, with
\* and without weights (one of them, 7%, a fraction that times 100 is not the
\* percentage again) and metadata, two malformed blocks (a brace that is
\* never closed, a single alternative) and a block of comments only.
BlockCatalogue ==
    { <<":", ":", "n", ":", ":", "Q", "{", "=", "a", "}">>,
      <<"V", "{", "T", "#", "n", "o", "#", "y", "e", "s", "}">>,
      <<"M", "{", "=", "a", " ", "~", "%", "5", "0", "%", "b", "#", "f", " ", "~", "c", "}">>,
      <<"W", "{", "~", "%", "7", "%", "a", " ", "~", "b", "}">>,
      <<"N", "{", "#", "=", "%", "5", "0", "%", "5", ":", "1", "#", "f", "}">>,
      <<"N", "{", "#", "3", "}">>,
      <<"X", "{", "=", "a", "-", ">", "b", " ", "=", "c", "-", ">", "d", "}">>,
      <<"E", "{", "}">>,
      <<"D", "\\", ":", "x">>,
      <<"$", "C", "A", "T", "E", "G", "O", "R", "Y", ":", " ", "c">>,
      <<"/", "/", " ", "[", "i", "d", ":", "i", "1", "]", " ", "[", "t", "a", "g", ":", "t", "]", "\n", "S", "{", "=", "%", "5", "0", "%", "a", "#", "f", "}">>,
      <<"B", "{">>,
      <<"O", "{", "~", "a", "}">>,
      <<"/", "/", " ", "n", "o", "t", "e">> }

MaxBlocks == 2

\* The sequences of at most n elements of a set.
RECURSIVE SeqsUpTo(_, _)
SeqsUpTo(set, n) ==
    IF n = 0 THEN { <<>> }
    ELSE LET shorter == SeqsUpTo(set, n - 1)
         IN  shorter \cup { Append(q, e) : q \in shorter, e \in set }

BatchInit ==
    \E blocks \in SeqsUpTo(BlockCatalogue, MaxBlocks) :
        ParseInit(Join(blocks, <<NL, NL>>), [family |-> "batch", blocks |-> blocks])

\* Questions written by hand: fields left out (the formats, the category, the
\* answer and tolerance of a numerical answer, both sides of a pair, the type
\* itself), a correct answer that is neither 0 nor 1, a tolerance and a
\* fraction that are strings, and one of a type the exporter has no case for.
AuthoredCatalogue ==
    { [qtype |-> "description", name |-> <<"D">>, questiontext |-> <<"x">>],
      [qtype |-> "essay", name |-> <<"E">>, questiontext |-> <<"y">>,
       generalfeedback |-> <<"g">>],
      [qtype |-> "essay", name |-> <<"H">>, questiontext |-> <<"y">>,
       questiontextformat |-> "html", generalfeedback |-> <<"g">>],
      [qtype |-> "category"],
      [qtype |-> "truefalse", name |-> <<"T">>, questiontext |-> <<"q">>,
       questiontextformat |-> "moodle", correctanswer |-> 2,
       feedbacktrue |-> [text |-> <<"y">>, format |-> "moodle"],
       feedbackfalse |-> [text |-> <<"n">>, format |-> "moodle"]],
      [qtype |-> "numerical", name |-> <<"N">>, questiontext |-> <<"q">>,
       questiontextformat |-> "moodle",
       answers |-> << [answer |-> Num(3 * Thousand), tolerance |-> Str(<<"1", "e", "3">>),
                       fraction |-> Str(<<"0", ".", "5">>), feedback |-> <<>>,
                       feedbackformat |-> "moodle"],
                      [answer |-> Num(3 * Thousand), tolerance |-> Str(<<"a", "b", "c">>),
                       fraction |-> Num(Thousand), feedback |-> <<>>] >>],
      [qtype |-> "numerical", name |-> <<"P">>, questiontext |-> <<"q">>,
       answers |-> << [feedback |-> <<"f">>] >>],
      [qtype |-> "match", name |-> <<"X">>, questiontext |-> <<"q">>,
       subquestions |-> << [questiontext |-> <<"l">>], [answertext |-> <<"r">>] >>],
      [name |-> <<"U">>, questiontext |-> <<"u">>],
      [qtype |-> "cloze", name |-> <<"C">>, questiontext |-> <<"z">>] }

\* The texts a caller parses before it exports questions written by hand: a
\* question followed by a block whose brace is never closed, and a question
\* alone.
AuthoredTexts ==
    { << <<":", ":", "n", ":", ":", "Q", "{", "=", "a", "}">>, <<"B", "{">> >>,
      << <<"E", "{", "}">> >> }

\* parseGift starts on one of these texts; no round trip follows (round = 0).
AuthoredInit ==
    \E blocks \in AuthoredTexts :
        /\ EscIdle /\ ExportIdle /\ FormatIdle
        /\ input = Join(blocks, <<NL, NL>>)
        /\ lines = LinesOf(Join(blocks, <<NL, NL>>))
        /\ i = 1
        /\ buf = <<>>
        /\ questions = <<>>
        /\ pc = "scan"
        /\ returned = Nothing
        /\ error = ""
        /\ round = 0
        /\ first = Nothing
        /\ given = [family |-> "authored", blocks |-> blocks]

(***************************************************************************)
(* A caller whose parseGift call has ended, with its questions or with an  *)
(* Error, calls exportGift on questions written by hand.                   *)
(***************************************************************************)
ExportAuthored ==
    /\ round = 0
    /\ pc \in {"returned", "threw"}
    /\ xpc = "idle"
    /\ \E qs \in SeqsUpTo(AuthoredCatalogue, MaxBlocks) : CallExportGift(qs)
    /\ UNCHANGED <<tripVars, escVars, parseVars, formatVars>>

Next == ScanLine \/ Return \/ Export \/ WriteOne \/ ReturnText \/ Reparse \/ ExportAuthored

Init == BatchInit \/ AuthoredInit

Spec == Init /\ [][Next]_vars

(***************************************************************************)
(* One block with an answer body put together from pieces, for the rules   *)
(* that determine the type.                                                *)
(***************************************************************************)
\* The pieces of an answer body: the characters the rules look for, an
\* escaped tilde and an escaped equals sign, verdicts, a letter and a number.
ClassifyPieces ==
    { <<"#">>, <<"~">>, <<"=">>, <<"-", ">">>, <<"T">>, <<"f", "a", "l", "s", "e">>,
      <<"a">>, <<"3">>, <<SP>>, <<BS, "~">>, <<BS, "=">> }

MaxClassifyPieces == 3

\* The general feedback some bodies end with.
FeedbackTail == <<"#", "#", "#", "#", "g">>

\* The body between the braces: the pieces, and the general feedback if any.
ClassifyBody(pieces, gf) == Concat(pieces) \o (IF gf THEN FeedbackTail ELSE <<>>)

\* What a block starts with: nothing, the category mark, or the two slashes
\* of a comment line.
ClassifyStems ==
    { <<>>, <<"$", "C", "A", "T", "E", "G", "O", "R", "Y", ":", SP>>, <<"/", "/", SP>> }

\* The block: its stem, a question text, and the body in braces or, without
\* braces, after it.
ClassifyText(stem, pieces, braced, gf) ==
    stem \o (IF braced THEN <<"Q", SP, "{">> \o ClassifyBody(pieces, gf) \o <<"}">>
             ELSE <<"Q", SP>> \o Concat(pieces))

ClassifyInit ==
    \E pieces \in SeqsUpTo(ClassifyPieces, MaxClassifyPieces), stem \in ClassifyStems :
        \E shape \in { <<TRUE, FALSE>>, <<TRUE, TRUE>>, <<FALSE, FALSE>> } :
            ParseInit(ClassifyText(stem, pieces, shape[1], shape[2]),
                      [ family |-> "classify", pieces |-> pieces, stem |-> stem,
                        braced |-> shape[1], gf |-> shape[2] ])

SpecClassify == ClassifyInit /\ [][ParseNext]_vars

(***************************************************************************)
(* One block put together from braces, escaped braces and text, for the    *)
(* brace handling.                                                         *)
(***************************************************************************)
BracePieces ==
    { <<"{">>, <<"}">>, <<BS, "{">>, <<BS, "}">>, <<BS, BS>>, <<"a">>, <<SP>> }

MaxBracePieces == 4

\* The name wrappers a block starts with: none, or a name.
BraceStems == { <<>>, <<":", ":", "n", ":", ":">> }

BraceInit ==
    \E pieces \in SeqsUpTo(BracePieces, MaxBracePieces) :
        \E stem \in BraceStems :
            ParseInit(stem \o <<"Q">> \o Concat(pieces),
                      [ family |-> "brace", pieces |-> pieces, stem |-> stem ])

SpecBrace == BraceInit /\ [][ParseNext]_vars

(***************************************************************************)
(* One block whose answer body is a list of alternatives, pairs or parts,  *)
(* each written with what it is read as.                                   *)
(***************************************************************************)
\* An alternative, pair or part: its text; its marker; the answer text (and
\* for a pair the right side) it holds; and the signed percentage its prefix
\* writes, as a number (none when it has no prefix).
Part(text, mark, answer, right, percent) ==
    [text |-> text, mark |-> mark, answer |-> answer, right |-> right, percent |-> percent]

NoPercent == Null

MultichoiceParts ==
    { Part(<<"=", "x">>, "=", <<"x">>, <<>>, NoPercent),
      Part(<<"~", "y">>, "~", <<"y">>, <<>>, NoPercent),
      Part(<<"~", "%", "5", "0", "%", "z">>, "~", <<"z">>, <<>>, Num(50 * Thousand)),
      Part(<<"~", "%", "-", "5", "0", "%", "w">>, "~", <<"w">>, <<>>, Num(-50 * Thousand)),
      Part(<<"~", "%", "1", "2", ".", "5", "%", "v">>, "~", <<"v">>, <<>>, Num(12500)),
      Part(<<"~", "%", "3", "3", ".", "3", "3", "3", "%", "q">>, "~", <<"q">>, <<>>, Num(33333)),
      Part(<<"~", BS, "=", "u">>, "~", <<"=", "u">>, <<>>, NoPercent) }

MatchParts ==
    { Part(<<"=", "a", "-", ">", "b">>, "=", <<"a">>, <<"b">>, NoPercent),
      Part(<<"=", "c", " ", "-", ">", " ", "d">>, "=", <<"c">>, <<"d">>, NoPercent) }

ShortanswerParts ==
    { Part(<<"=", "s">>, "=", <<"s">>, <<>>, NoPercent),
      Part(<<"=", "%", "5", "0", "%", "t">>, "=", <<"t">>, <<>>, Num(50 * Thousand)),
      Part(<<"=", "%", "-", "2", "5", "%", "r">>, "=", <<"r">>, <<>>, Num(-25 * Thousand)) }

NumericalParts ==
    { Part(<<"=", "4">>, "=", <<"4">>, <<>>, NoPercent),
      Part(<<"=", "%", "5", "0", "%", "6">>, "=", <<"6">>, <<>>, Num(50 * Thousand)),
      Part(<<"=", "%", "-", "5", ".", "5", "%", "8">>, "=", <<"8">>, <<>>, Num(-5500)) }

MaxParts == 3

\* The kinds of body and the parts of each.
PartsOf(kind) ==
    CASE kind = "multichoice" -> MultichoiceParts
      [] kind = "match" -> MatchParts
      [] kind = "shortanswer" -> ShortanswerParts
      [] OTHER -> NumericalParts

PartKinds == {"multichoice", "match", "shortanswer", "numerical"}

\* The texts of the parts, in order.
PartTexts(parts) == [ n \in 1 .. Len(parts) |-> parts[n].text ]

\* The block: the parts, a blank between them, in braces after the question
\* text; a numerical body starts with the number sign.
PartsText(kind, parts) ==
    <<"Q", "{">> \o (IF kind = "numerical" THEN <<"#">> ELSE <<>>)
    \o Join(PartTexts(parts), <<SP>>) \o <<"}">>

PartsInit ==
    \E kind \in PartKinds :
        \E parts \in SeqsUpTo(PartsOf(kind), MaxParts) :
            /\ parts # <<>>
            /\ ParseInit(PartsText(kind, parts),
                         [family |-> "parts", kind |-> kind, parts |-> parts])

SpecParts == PartsInit /\ [][ParseNext]_vars


(***************************************************************************)
(* One numerical block whose body is a list of parts, each written with    *)
(* the numbers it holds.                                                   *)
(***************************************************************************)
\* A part: its text; its form (a range a..b, an answer a with tolerance b, a
\* bare number a, a part whose number cannot be read, the tilde that opens
\* the wrong feedback); the numbers a and b it writes, in thousandths; and the
\* message of the Error a part that cannot be read ends the call with.
NumericalPart(text, form, a, b, message) ==
    [text |-> text, form |-> form, a |-> a, b |-> b, message |-> message]

NumericalForms ==
    { NumericalPart(<<"=", "1", ".", ".", "3">>, "range", 1000, 3000, ""),
      NumericalPart(<<"=", "-", "2", ".", ".", "2">>, "range", -2000, 2000, ""),
      NumericalPart(<<"=", "1", ".", "5", ".", ".", "2", ".", "5">>, "range", 1500, 2500, ""),
      NumericalPart(<<"=", "0", ".", "1", ".", ".", "0", ".", "3">>, "range", 100, 300, ""),
      NumericalPart(<<"=", "1", "e", "3", ":", "2", "E", "-", "1">>, "tolerance",
                    Thousand * Thousand, 200, ""),
      NumericalPart(<<"=", "5", ":", "0", ".", "5">>, "tolerance", 5000, 500, ""),
      NumericalPart(<<"=", "%", "5", "0", "%", "3", ":", "1", "#", "o", "k">>,
                    "tolerance", 3000, 1000, ""),
      NumericalPart(<<"=", "7">>, "bare", 7000, 0, ""),
      NumericalPart(<<"=", "x">>, "fault", 0, 0, "Numerical answer must be a number"),
      NumericalPart(<<"=", "I", "n", "f", "i", "n", "i", "t", "y">>, "fault", 0, 0,
                    "Numerical answer must be a number"),
      NumericalPart(<<"=", "1", ".", ".", "x">>, "fault", 0, 0,
                    "Numerical range must be numbers"),
      NumericalPart(<<"=", "5", ":", "x">>, "fault", 0, 0,
                    "Numerical answer and tolerance must be numbers"),
      NumericalPart(<<"~", "#", "w">>, "tilde", 0, 0, "") }

MaxNumericalParts == 3

NumericalInit ==
    \E parts \in SeqsUpTo(NumericalForms, MaxNumericalParts) :
        /\ parts # <<>>
        /\ ParseInit(PartsText("numerical", parts),
                     [family |-> "numerical", kind |-> "numerical", parts |-> parts])

SpecNumerical == NumericalInit /\ [][ParseNext]_vars

(***************************************************************************)
(* parseTextWithFormat called on its own, on spans that begin with a tag   *)
(* of a format, with a tag of no format, with an opening bracket that is   *)
(* never closed, or with no tag; the spans hold placeholders, as the spans *)
(* of the parser do, and blanks.                                           *)
(***************************************************************************)
ParseTextWithFormat ==
    /\ fpc = "call"
    /\ fresult' = parseTextWithFormat(ftext, fdefault)
    /\ fpc' = "returned"
    /\ UNCHANGED <<ftext, fdefault, escVars, parseVars, exportVars, tripVars>>

FormatPieces ==
    { <<"[", "h", "t", "m", "l", "]">>, <<"[", "p", "l", "a", "i", "n", "]">>,
      <<"[", "m", "a", "r", "k", "d", "o", "w", "n", "]">>,
      <<"[", "H", "T", "M", "L", "]">>, <<"[", "m", "o", "o", "d", "l", "e", "]">>,
      <<"[", "f", "o", "o", "]">>, <<"[", "]">>, <<"[">>, <<"]">>,
      <<"b", "a", "r">>, <<" ">>, <<"&", "&", "0", "5", "8", ";">> }

MaxFormatPieces == 3

FormatInit ==
    /\ ftext \in PieceTexts(FormatPieces, MaxFormatPieces)
    /\ fdefault \in FORMAT
    /\ fresult = Nothing
    /\ fpc = "call"
    /\ EscIdle /\ ParseIdle /\ ExportIdle
    /\ round = 0 /\ first = Nothing /\ given = Nothing

SpecFormat == FormatInit /\ [][ParseTextWithFormat]_vars

(***************************************************************************)
(* Texts put together line by line, for the segmentation into blocks: an   *)
(* empty line, a line of blanks, a comment line with an idnumber and a     *)
(* tag, a question on one line, and the two lines of a question that is    *)
(* malformed when either line stands alone.  The lines are joined by "\n"  *)
(* or by "\r\n", and nothing follows the last line.                        *)
(***************************************************************************)
SegmentLines ==
    { <<>>, <<" ", TAB>>,
      <<"/", "/", " ", "[", "i", "d", ":", "i", "1", "]", " ", "[", "t", "a", "g", ":", "t", "]">>,
      <<"Q", "{", "T", "}">>, <<"E", "{">>, <<"}">> }

MaxLines == 5

LineBreaks == { <<NL>>, <<"\r", NL>> }

SegmentInit ==
    \E ls \in SeqsUpTo(SegmentLines, MaxLines), eol \in LineBreaks :
        ParseInit(Join(ls, eol), [family |-> "segments", lines |-> ls, eol |-> eol])

SpecSegments == SegmentInit /\ [][ParseNext]_vars

(***************************************************************************)
(* Properties of the escaper.                                              *)
(***************************************************************************)
\* A text that holds something the parser reads as a placeholder.
LooksMasked(t) == Includes(t, <<"&", "&">>)

\* C2 (as claimed): a text of ordinary and reserved characters (newline
\* included, no carriage return, no placeholder look-alike) that is escaped by
\* repchar and then masked and unmasked by the parser comes back unchanged.
C2_EscapeThenUnescapeIsIdentity ==
    (via = "exporter" /\ stage = "unmasked" /\ ~LooksMasked(s)) => cur = s

\* C3 (as claimed): escapedcharPost(escapedcharPre(s)) = s for every string s,
\* escaped reserved characters, doubled backslashes and placeholder
\* look-alikes included.
C3_UnmaskInvertsMask ==
    (via = "parser" /\ stage = "unmasked") => cur = s

\* What reading the escapes of a text from left to right gives: a doubled
\* backslash is one backslash, an escaped reserved character is the bare
\* character, everything else stands for itself.
RECURSIVE Unescape(_)
Unescape(t) ==
    IF t = <<>> THEN <<>>
    ELSE IF Len(t) >= 2 /\ t[1] = BS /\ t[2] \in {BS, ":", "#", "=", "{", "}", "~"}
         THEN <<t[2]>> \o Unescape(DropTo(t, 3))
         ELSE <<t[1]>> \o Unescape(Tail(t))

\* The strings the amended C3 speaks of: no placeholder look-alike and no
\* backslash directly before the letter n.
C3Covered(t) == ~LooksMasked(t) /\ ~Includes(t, <<BS, "n">>)

\* C3 (amended): for a string s with no placeholder look-alike and no
\* backslash-n, escapedcharPost(escapedcharPre(s)) is s with its escapes read
\* (each escaped reserved character bare, each doubled backslash single); it
\* is s itself exactly when s holds no backslash at all.
C3_UnmaskReadsEscapes ==
    (via = "parser" /\ stage = "unmasked" /\ C3Covered(s)) =>
        /\ cur = Unescape(s)
        /\ (~Includes(s, <<BS>>) => cur = s)

\* C3 witness: a doubled backslash followed by an escaped colon has been
\* masked and unmasked, and came back as one backslash and a bare colon.
C3_Witness ==
    /\ via = "parser" /\ stage = "unmasked" /\ C3Covered(s)
    /\ s = <<BS, BS, BS, ":">>
    /\ cur = <<BS, ":">>


(***************************************************************************)
(* Properties of a batch and of the round trip.                            *)
(***************************************************************************)
\* What parseQuestion makes of the blocks the batch was put together from.
BlockResults == [ b \in 1 .. Len(given.blocks) |-> parseQuestion(LinesOf(given.blocks[b])) ]

\* The questions among a sequence of results, in order.
RECURSIVE QuestionsOf(_)
QuestionsOf(rs) ==
    IF rs = <<>> THEN <<>>
    ELSE (IF IsQuestion(Head(rs)) THEN <<Head(rs).question>> ELSE <<>>)
         \o QuestionsOf(Tail(rs))

\* C1 (as claimed): when the first parse of a text returned its questions,
\* the parse of their export succeeds and returns the same questions, field
\* by field.
C1_RoundTripKeepsQuestions ==
    (round = 2 /\ pc \in {"returned", "threw"}) => (pc = "returned" /\ returned = first)

\* The question at place n of qs is of a type exportGift has no case for: its
\* qtype is none of the eight, or it has none.
Unrecognized(qs, n) ==
    "qtype" \notin DOMAIN qs[n]
    \/ qs[n].qtype \notin { "category", "description", "essay", "truefalse",
                            "multichoice", "shortanswer", "numerical", "match" }

\* What `${q.qtype}` writes at the end of the message.
NamedType(q) == IF "qtype" \in DOMAIN q THEN q.qtype ELSE "undefined"

\* C6: a parseGift call that met a malformed block has thrown the Error of
\* the first such block and handed no question to its caller, whatever it had
\* collected before; a call that returned met none and returns a question for
\* every block that has one, in order.  An exportGift call on questions one
\* of which is of an unrecognized type has thrown at the first such question,
\* with the unsupported-type Error that names the type, and handed over no
\* text, whatever it had written before; a call that returned met none and
\* wrote every question, also those that lack optional fields.
C6_AllOrNothing ==
    /\ pc = "threw" => returned = Nothing
    /\ (pc = "threw" /\ round < 2) =>
           /\ IsThrown(FirstThrown(BlockResults))
           /\ error = FirstThrown(BlockResults).thrown
    /\ (pc = "returned" /\ round < 2) =>
           /\ ~IsThrown(FirstThrown(BlockResults))
           /\ returned = QuestionsOf(BlockResults)
    /\ xpc = "threw" =>
           /\ exported = Nothing
           /\ k \in 1 .. Len(toExport)
           /\ Unrecognized(toExport, k)
           /\ \A n \in 1 .. k - 1 : ~Unrecognized(toExport, n)
           /\ xerror = "Unsupported qtype in exporter: " \o NamedType(toExport[k])
    /\ xpc = "returned" =>
           /\ \A n \in 1 .. Len(toExport) : ~Unrecognized(toExport, n)
           /\ Len(out) = Len(toExport)
    /\ (xpc = "write" /\ k > Len(toExport)) =>
           \A n \in 1 .. Len(toExport) : ~Unrecognized(toExport, n)

\* C6 witness: a parseGift call threw at a malformed block after it had
\* collected the question of a valid block, and its caller has nothing; the
\* exportGift call that followed threw at a question of type cloze after it
\* had written a numerical question whose answer lacks its answer and its
\* tolerance, and its caller has no text.
C6_Witness ==
    /\ pc = "threw" /\ Len(questions) >= 1 /\ returned = Nothing
    /\ Len(given.blocks) = 2 /\ IsQuestion(BlockResults[1]) /\ IsThrown(BlockResults[2])
    /\ xpc = "threw" /\ Len(toExport) = 2 /\ Len(out) = 1 /\ exported = Nothing
    /\ NamedType(toExport[1]) = "numerical"
    /\ \E n \in 1 .. Len(toExport[1].answers) :
           DOMAIN toExport[1].answers[n] \cap {"answer", "tolerance"} = {}
    /\ NamedType(toExport[2]) = "cloze"
    /\ xerror = "Unsupported qtype in exporter: cloze"

(***************************************************************************)
(* Properties of the type of a block.                                      *)
(***************************************************************************)
\* A text with every escape (a backslash and the character after it) blanked
\* out by two underscores, so that what is left of a reserved character is
\* unescaped.  Positions are kept.
RECURSIVE Neutral(_)
Neutral(t) ==
    IF t = <<>> THEN <<>>
    ELSE IF Len(t) >= 2 /\ t[1] = BS THEN <<"_", "_">> \o Neutral(DropTo(t, 3))
    ELSE <<t[1]>> \o Neutral(Tail(t))

\* The answer body without the general feedback: what comes before the last
\* "####", trimmed.
FeedbackStripped(body) ==
    LET at == LastIndexOf(body, <<"#", "#", "#", "#">>)
    IN  Trim(IF at # 0 THEN SubSeq(body, 1, at - 1) ELSE body)

\* The verdict tokens.
Verdicts == { <<"T">>, <<"T", "R", "U", "E">>, <<"F">>, <<"F", "A", "L", "S", "E">> }

\* The part of a body before its first number sign.
BeforeNumberSign(body) ==
    IF Includes(body, <<"#">>) THEN SubSeq(body, 1, IndexOf(body, <<"#">>) - 1) ELSE body

\* The claimed priority order on a feedback-stripped body: the type of the
\* first rule that matches.
FirstRule(body) ==
    IF body = <<>> THEN "essay"
    ELSE IF body[1] = "#" THEN "numerical"
    ELSE IF Includes(Neutral(body), <<"~">>) THEN "multichoice"
    ELSE IF Includes(Neutral(body), <<"=">>) /\ Includes(Neutral(body), <<"-", ">">>)
    THEN "match"
    ELSE IF ToUpperCase(Trim(BeforeNumberSign(Neutral(body)))) \in Verdicts
    THEN "truefalse"
    ELSE "shortanswer"

\* The type whose case threw an Error.
TypeOfError(message) ==
    CASE message = "Multiple choice requires at least 2 answers" -> "multichoice"
      [] message \in { "Matching requires at least 2 pairs",
                       "Matching pair must contain ->" } -> "match"
      [] message = "Shortanswer requires at least 1 answer" -> "shortanswer"
      [] message \in { "Numerical requires answers", "Numerical range must be numbers",
                       "Numerical answer and tolerance must be numbers",
                       "Numerical answer must be a number" } -> "numerical"
      [] OTHER -> "none"

\* The parseGift call is over.
Done == pc \in {"returned", "threw"}

\* The type parseQuestion chose for the one block of the input: the qtype of
\* the question it returned, or the type whose case threw.
ChosenType ==
    IF pc = "returned"
    THEN (IF Len(returned) = 1 THEN returned[1].qtype ELSE "none")
    ELSE TypeOfError(error)

\* The type the claimed rules give the block: the first rule that matches
\* the feedback-stripped body in braces, in the order essay, numerical,
\* multichoice, match, truefalse, shortanswer, and description without braces.
ClaimedType ==
    IF given.braced THEN FirstRule(FeedbackStripped(ClassifyBody(given.pieces, given.gf)))
    ELSE "description"

\* C4 (as claimed): for every block, the type chosen is the one of the first
\* rule that matches the feedback-stripped body in braces, and a block with no
\* brace at all is always a description.
C4_ClassificationPriority ==
    Done => (ChosenType = ClaimedType /\ (~given.braced => pc = "returned"))

\* C4: a block that starts with the category mark is a category, with or
\* without braces and whatever is in them, and a block of comment lines only
\* gives no question; for every other block the type chosen is the one of
\* the first rule that matches the feedback-stripped body in braces, in the
\* order essay, numerical, multichoice, match, truefalse, shortanswer, and a
\* block with no brace at all is a description.
C4_PriorityPastCategory ==
    Done =>
        IF given.stem = <<>>
        THEN ChosenType = ClaimedType /\ (~given.braced => pc = "returned")
        ELSE IF Head(given.stem) = "$"
        THEN pc = "returned" /\ ChosenType = "category"
        ELSE pc = "returned" /\ returned = <<>>

\* C4 witness: a body that starts with the number sign and holds a tilde
\* was read as numerical, with the answer and the wildcard.
C4_Witness ==
    /\ given.stem = <<>> /\ given.braced /\ ~given.gf
    /\ given.pieces = << <<"#">>, <<"3">>, <<"~">> >>
    /\ pc = "returned" /\ ChosenType = "numerical"
    /\ Len(returned[1].answers) = 2

(***************************************************************************)
(* Properties of the brace handling.                                       *)
(***************************************************************************)
\* The text of the block after its name wrapper.
BraceText == <<"Q">> \o Concat(given.pieces)

\* The first unescaped opening brace and the last unescaped closing brace of
\* the text, 0 when there is none.
FirstOpen == IndexOf(Neutral(BraceText), <<"{">>)
LastClose == LastIndexOf(Neutral(BraceText), <<"}">>)

\* The text strictly between the two.
SpanText == SubSeq(BraceText, FirstOpen + 1, LastClose - 1)

\* The text around the span: the blank-fill mark stands for the span unless
\* the text ends at the closing brace.
AroundSpan ==
    SubSeq(BraceText, 1, FirstOpen - 1)
    \o (IF LastClose = Len(TrimRight(BraceText)) THEN <<>> ELSE <<"_", "_", "_", "_", "_">>)
    \o DropTo(BraceText, LastClose + 1)

\* C5: a block that is no category has one of three outcomes.  With no
\* unescaped brace it is a description whose question text is the whole text;
\* with only one of the two, or the last closing brace before the first opening
\* one, the call throws the brace error, whose message ends with the text and
\* its escapes read, and returns nothing; otherwise the
\* answer span is the text strictly between the first opening and the last
\* closing brace (here read as an essay when it is blank, as the one answer of
\* a shortanswer otherwise).  An escaped brace is text in all three.
C5_BraceOutcomes ==
    Done =>
        IF FirstOpen = 0 /\ LastClose = 0
        THEN /\ pc = "returned" /\ Len(returned) = 1
             /\ returned[1].qtype = "description"
             /\ returned[1].questiontext = Unescape(Trim(BraceText))
        ELSE IF FirstOpen = 0 \/ LastClose = 0 \/ LastClose < FirstOpen
        THEN /\ pc = "threw" /\ returned = Nothing
             /\ error = "Brace error in question: " \o TextOf(Unescape(Trim(BraceText)))
        ELSE /\ pc = "returned" /\ Len(returned) = 1
             /\ returned[1].questiontext = Unescape(Trim(AroundSpan))
             /\ IF Trim(SpanText) = <<>> THEN returned[1].qtype = "essay"
                ELSE /\ returned[1].qtype = "shortanswer"
                     /\ Len(returned[1].answers) = 1
                     /\ returned[1].answers[1].answer = Unescape(Trim(SpanText))

\* C5 witness: of two closing braces the last one ended the span, and the
\* escaped opening brace before the span stayed in the question text.
C5_Witness ==
    /\ given.stem = <<>>
    /\ given.pieces = << <<BS, "{">>, <<"{">>, <<"}">>, <<"}">> >>
    /\ pc = "returned"
    /\ returned[1].questiontext = <<"Q", "{">>
    /\ returned[1].answers[1].answer = <<"}">>

(***************************************************************************)
(* Properties of alternatives, pairs and weights.                          *)
(***************************************************************************)
\* Some part of the body is written with a tilde: the body is multichoice.
HasTilde == \E n \in 1 .. Len(given.parts) : given.parts[n].mark = "~"

\* The body is a list of multichoice alternatives.
IsChoiceList == given.kind = "multichoice" /\ HasTilde

\* The positions of the alternatives marked with the equals sign.
MarkedParts == { n \in 1 .. Len(given.parts) : given.parts[n].mark = "=" }

\* The returned question holds one answer per part, with the answer text of
\* each part, in the order of the source.
AnswersInOrder ==
    /\ Len(returned[1].answers) = Len(given.parts)
    /\ \A n \in 1 .. Len(given.parts) :
           returned[1].answers[n].answer = given.parts[n].answer

\* The returned question holds one subquestion per pair, in the order of the
\* source.
PairsInOrder ==
    /\ Len(returned[1].subquestions) = Len(given.parts)
    /\ \A n \in 1 .. Len(given.parts) :
           /\ returned[1].subquestions[n].questiontext = given.parts[n].answer
           /\ returned[1].subquestions[n].answertext = given.parts[n].right

\* C7: a match body with one pair and a multichoice body with one alternative
\* throw; with two (or more) the call returns the question with as many
\* subquestions or answers, in source order.  So no returned match question
\* has fewer than two subquestions and no returned multichoice question fewer
\* than two answers.
C7_MinimumCardinality ==
    Done =>
        /\ given.kind = "match" =>
              IF Len(given.parts) = 1
              THEN pc = "threw" /\ error = "Matching requires at least 2 pairs"
              ELSE /\ pc = "returned" /\ Len(returned) = 1
                   /\ returned[1].qtype = "match" /\ PairsInOrder
        /\ IsChoiceList =>
              IF Len(given.parts) = 1
              THEN pc = "threw" /\ error = "Multiple choice requires at least 2 answers"
              ELSE /\ pc = "returned" /\ Len(returned) = 1
                   /\ returned[1].qtype = "multichoice" /\ AnswersInOrder
        /\ pc = "returned" =>
              \A n \in 1 .. Len(returned) :
                  /\ returned[n].qtype = "match" => Len(returned[n].subquestions) >= MinPairs
                  /\ returned[n].qtype = "multichoice" => Len(returned[n].answers) >= MinChoices

\* C7 witness: a multichoice body of a single alternative made the call throw.
C7_Witness ==
    /\ IsChoiceList /\ Len(given.parts) = 1
    /\ pc = "threw" /\ error = "Multiple choice requires at least 2 answers"
    /\ returned = Nothing

\* C8: in a multichoice question, single is 0 when no alternative carries an
\* unescaped equals sign; when exactly one does, single is 1, that alternative
\* has fraction 1 and every alternative with neither the marker nor a
\* percentage has fraction 0.  The answers are in the order of the source.
C8_MultichoiceMarking ==
    (Done /\ IsChoiceList /\ Len(given.parts) >= MinChoices) =>
        /\ pc = "returned" /\ returned[1].qtype = "multichoice"
        /\ AnswersInOrder
        /\ MarkedParts = {} => returned[1].single = 0
        /\ Cardinality(MarkedParts) = 1 =>
              /\ returned[1].single = 1
              /\ \A n \in MarkedParts : returned[1].answers[n].fraction = Num(Thousand)
              /\ \A n \in 1 .. Len(given.parts) :
                     (n \notin MarkedParts /\ given.parts[n].percent = NoPercent)
                         => returned[1].answers[n].fraction = Num(0)

\* C8 witness: one marked alternative among three, one of the others with an
\* escaped equals sign in its text.
C8_Witness ==
    /\ IsChoiceList /\ Len(given.parts) = 3 /\ MarkedParts = {1}
    /\ given.parts[3].answer = <<"=", "u">>
    /\ pc = "returned" /\ returned[1].single = 1
    /\ returned[1].answers[1].fraction = Num(Thousand)
    /\ returned[1].answers[3].fraction = Num(0)

\* The fraction claimed for a part: the signed percentage of its prefix over
\* 100; without prefix, 1 for a marked multichoice alternative, 0 for an
\* unmarked one, 1 for a shortanswer or numerical part.
ClaimedFraction(part) ==
    IF part.percent # NoPercent THEN DblOver(part.percent, 100)
    ELSE IF part.mark = "=" THEN Num(Thousand) ELSE Num(0)

\* -1 <= v <= 1 of a number.
InUnitRange(v) ==
    DblFinite(v) /\ (v.m = <<>> \/ v.e < -52 \/ (v.m = Two52 /\ v.e = -52))

\* C10 (as claimed): every parsed answer has the fraction its signed
\* percentage prefix writes, or the default of its kind, and the fraction lies
\* in [-1, 1].
C10_SignedFraction ==
    (pc = "returned" /\ given.kind # "match") =>
        \A n \in 1 .. Len(returned[1].answers) :
            /\ returned[1].answers[n].fraction = ClaimedFraction(given.parts[n])
            /\ InUnitRange(returned[1].answers[n].fraction)

(***************************************************************************)
(* Properties of numerical answers.                                        *)
(***************************************************************************)
\* The position of the first part that is the tilde, 0 when there is none.
FirstTilde ==
    LET at == { n \in 1 .. Len(given.parts) : given.parts[n].form = "tilde" }
    IN  IF at = {} THEN 0 ELSE CHOOSE n \in at : \A o \in at : n <= o

\* The '='-parts: the parts before the first tilde.
EqualsParts ==
    IF FirstTilde = 0 THEN given.parts ELSE SubSeq(given.parts, 1, FirstTilde - 1)

\* The positions of the '='-parts whose number cannot be read.
Faults == { n \in 1 .. Len(EqualsParts) : EqualsParts[n].form = "fault" }

\* The answer and the tolerance claimed for a part, in the arithmetic of the
\* source: (a+b)/2 and (b-a)/2 for a range.
ClaimedAnswer(part) ==
    IF part.form = "range" THEN DblOver(DblPlus(Num(part.a), Num(part.b)), 2)
    ELSE Num(part.a)

ClaimedTolerance(part) ==
    IF part.form = "range" THEN DblOver(DblMinus(Num(part.b), Num(part.a)), 2)
    ELSE Num(part.b)

\* C9 (as claimed): a range a..b is read as answer (a+b)/2 and tolerance
\* (b-a)/2, a:t as answer a and tolerance t, a bare number a as answer a and
\* tolerance 0; the
\* first part whose number is not finite ends the call with its Error; and
\* when the body holds a tilde the wildcard entry (answer "*", fraction 0) is
\* the last answer, after every '='-part.
C9_NumericalValues ==
    Done =>
        IF EqualsParts = <<>>
        THEN pc = "threw" /\ error = "Numerical requires answers"
        ELSE IF Faults # {}
        THEN /\ pc = "threw"
             /\ error = EqualsParts[CHOOSE n \in Faults : \A o \in Faults : n <= o].message
        ELSE /\ pc = "returned" /\ Len(returned) = 1
             /\ returned[1].qtype = "numerical"
             /\ Len(returned[1].answers)
                   = Len(EqualsParts) + (IF FirstTilde # 0 THEN 1 ELSE 0)
             /\ \A n \in 1 .. Len(EqualsParts) :
                    /\ returned[1].answers[n].answer = ClaimedAnswer(EqualsParts[n])
                    /\ returned[1].answers[n].tolerance = ClaimedTolerance(EqualsParts[n])
             /\ FirstTilde # 0 =>
                    /\ returned[1].answers[Len(returned[1].answers)].answer = Str(<<"*">>)
                    /\ returned[1].answers[Len(returned[1].answers)].fraction = Num(0)

(***************************************************************************)
(* Properties of the format tags.                                          *)
(***************************************************************************)
\* The span begins with a bracketed tag: "[" first and a "]" after it.
HasTag == ftext # <<>> /\ Head(ftext) = "[" /\ Includes(ftext, <<"]">>)

\* The name between the brackets of the tag, in lower case, and what follows
\* the tag.
TagName == ToLowerCase(SubSeq(ftext, 2, IndexOf(ftext, <<"]">>) - 1))
AfterTag == DropTo(ftext, IndexOf(ftext, <<"]">>) + 1)

\* The formats a tag can select, and the names of all the formats.
TagFormats == {"html", "plain", "markdown"}
NamesFormat(name) == \E f \in FORMAT : name = FormatText(f)

\* A text as every caller receives it: trimmed, its placeholders read.
AsReturned(t) == escapedcharPost(Trim(t))

\* C11 (as claimed): the format parseTextWithFormat returns is one of moodle,
\* html, plain, markdown; a span that begins with the tag of html, plain or
\* markdown gets that format and the text after the tag; a span that begins
\* with a bracketed tag that names no format keeps its whole text, tag
\* included, and gets moodle; a span with no tag keeps its text and gets the
\* default format.
C11_FormatTagHandling ==
    fpc = "returned" =>
        /\ fresult.format \in FORMAT
        /\ (HasTag /\ \E f \in TagFormats : TagName = FormatText(f)) =>
               /\ TagName = FormatText(fresult.format)
               /\ fresult.text = AsReturned(AfterTag)
        /\ (HasTag /\ ~NamesFormat(TagName)) =>
               /\ fresult.format = "moodle"
               /\ fresult.text = AsReturned(ftext)
        /\ ~HasTag =>
               /\ fresult.format = fdefault
               /\ fresult.text = AsReturned(ftext)

(***************************************************************************)
(* Properties of the segmentation into blocks.                             *)
(***************************************************************************)
\* A line that separates blocks, and a '//' comment line.
BlankLine(line) == Trim(line) = <<>>
CommentLine(line) == StartsAt(Trim(line), <<"/", "/">>, 1)

\* The length of the run of non-blank lines that ls begins with.
RECURSIVE RunLength(_)
RunLength(ls) ==
    IF ls = <<>> \/ BlankLine(Head(ls)) THEN 0 ELSE 1 + RunLength(Tail(ls))

\* The maximal runs of non-blank lines of ls, in order.
RECURSIVE RunsOf(_)
RunsOf(ls) ==
    IF ls = <<>> THEN <<>>
    ELSE IF BlankLine(Head(ls)) THEN RunsOf(Tail(ls))
    ELSE <<SubSeq(ls, 1, RunLength(ls))>> \o RunsOf(DropTo(ls, RunLength(ls) + 1))

\* A run with at least one line that is no comment.
HasContent(run) == \E l \in 1 .. Len(run) : ~CommentLine(run[l])

\* The runs of ls that hold a block, in order.
BlocksOf(ls) == SelectSeq(RunsOf(ls), HasContent)

\* What parseQuestion makes of each of the blocks, each taken on its own.
ParsedAlone(blocks) == [ b \in 1 .. Len(blocks) |-> parseQuestion(blocks[b]) ]

\* The questions of the blocks of ls, each block parsed on its own.
QuestionsAlone(ls) == QuestionsOf(ParsedAlone(BlocksOf(ls)))

\* The lines of ls before and after line p.
Before(ls, p) == SubSeq(ls, 1, p - 1)
After(ls, p) == DropTo(ls, p + 1)

\* The call on lines ls, whose blocks parsed alone give rs, ended as claimed.
Segmented(ls, rs) ==
    /\ pc = "threw" =>
           /\ IsThrown(FirstThrown(rs))
           /\ error = FirstThrown(rs).thrown
    /\ pc = "returned" =>
           /\ Len(returned) = Len(rs)
           /\ \A b \in 1 .. Len(rs) :
                  IsQuestion(rs[b]) /\ returned[b] = rs[b].question
           /\ \A p \in 1 .. Len(ls) :
                  BlankLine(ls[p]) =>
                      returned = QuestionsAlone(Before(ls, p)) \o QuestionsAlone(After(ls, p))

\* C12: a parseGift call that returned hands over one question for every
\* maximal run of non-blank lines that holds a line that is no comment, in the
\* order of the runs, each the question the run gives when it is parsed on its
\* own: a run of comment lines only gives no question and leaves nothing to the
\* next block, the last run needs no blank line after it, and what is returned
\* for the lines around any blank line is what is returned for the lines
\* before it followed by what is returned for the lines after it.  A call that
\* threw met a block that is malformed on its own.
C12_BlockSegmentation == Segmented(given.lines, ParsedAlone(BlocksOf(given.lines)))

\* C12 witness: a question, a line of blanks, a run of one comment line, an
\* empty line and a last question with no blank line after it, joined by
\* "\r\n"; two questions were returned, and the last has neither the idnumber
\* nor the tag of the comment that came before its block.
C12_Witness ==
    /\ pc = "returned"
    /\ given.eol = <<"\r", NL>>
    /\ Len(given.lines) = 5
    /\ ~BlankLine(given.lines[1]) /\ ~CommentLine(given.lines[1])
    /\ BlankLine(given.lines[2]) /\ given.lines[2] # <<>>
    /\ CommentLine(given.lines[3])
    /\ given.lines[4] = <<>>
    /\ ~BlankLine(given.lines[5]) /\ ~CommentLine(given.lines[5])
    /\ Len(returned) = 2
    /\ returned[2].idnumber = <<>>
    /\ returned[2].tags = <<>>

=============================================================================
